---- MODULE Spec2Model ----
(***************************************************************************)
(* Model of the HTTP upload server (simple_upload_server.go, the variant   *)
(* with the idempotent finalizeUpload): the session table, the upload      *)
(* sessions, the request handlers as concurrent tasks that suspend at      *)
(* every object-store call, and the multipart side of the object store.    *)
(***************************************************************************)
EXTENDS Integers, Sequences, FiniteSets, TLC

----------------------------------------------------------------------------
(* Bounds of the model *)

NumHandlers == 2
MaxRequests == 4
MaxSessions == 1
MaxChunks == 1
\* the runs that follow the finalization of one upload
FinHandlers == 2
FinRequests == 4
\* the runs that follow the life of one upload up to its cancellation
LifeHandlers == 2
LifeRequests == 3
\* the runs of the streaming service: the last clock reading, the number of
\* tokens minted and the length of the stored object
MaxTime == 6
MaxMints == 2
MaxFileLen == 2
\* the runs of /files: the number of uploads that complete during a run
MaxPuts == 2
\* the runs that create sessions
CreateHandlers == 2
CreateRequests == 2
\* the runs that end with the session janitor: the requests of a run and the
\* hours it lasts
\* the retry specification: handler tasks and requests
PartHandlers == 2
PartRequests == 4

\* the locking specification: handler tasks and requests
LockHandlers == 2
LockRequests == 3

\* the binary-protocol server: the commands sent on the connection
GnetCommands == 5

JanitorRequests == 3
MaxHours == 2

----------------------------------------------------------------------------
(* Program constants, sizes in MiB *)

MAX_FILE_SIZE == 10240
MIN_CHUNK_SIZE == 5
MAX_CHUNK_SIZE == 100

\* in minutes, the unit of the clock
SESSION_TIMEOUT == 120
TOKEN_LIFETIME == 5

----------------------------------------------------------------------------
(* Request inputs *)

Procs == 1..NumHandlers
Emails == {"a", "b"}
\* the callers that start uploads; the other address only intrudes
Owners == {"a"}
FileNames == {"", "clip.mp4", "tool.exe"}
FileSizes == {12, MAX_FILE_SIZE + 1}
ChunkSizes == {5}
Datas == {"A", "B"}
\* the chunk_index form value, as a sequence of characters: a decimal digit,
\* a letter, or nothing at all
Digits == <<"0", "1", "2", "3", "4", "5", "6", "7", "8", "9">>
ChunkIndexStrs == {<<Digits[i + 1]>> : i \in 0..MaxChunks} \cup {<<"x">>}
\* the chunk file part of the form; "" stands for a request without one
ChunkDatas == Datas \cup {""}
BogusSessionID == <<"nobody", 0>>

VARIABLES
    now,      \* the clock read by time.Now()
    sessions, \* SessionManager.sessions: session id -> session object (0: absent)
    heap,     \* the UploadSession objects ever allocated
    s3,       \* the object store: multipart uploads and completed objects
    h,        \* the request handlers: position and locals of each task
    out,      \* the response written by the step just taken, if any
    s3calls,  \* number of object-store calls per call descriptor
    nreq,     \* number of requests the run may still accept for processing
    tokens,   \* TokenManager.tokens: token -> streaming token entry
    minted,   \* the tokens returned by CreateStreamingToken so far, in order
    files,    \* the completed objects of the store: key -> bytes
    dl        \* a client that downloads an object range by range

vars == <<now, sessions, heap, s3, h, out, s3calls, nreq, tokens, minted, files, dl>>

\* the state of the streaming service and its client
svars == <<tokens, minted, files, dl>>

\* the state of the upload service
uvars == <<sessions, heap, s3, h, s3calls, nreq>>

NoDownload == [next |-> 0, body |-> <<>>]

\* no streaming token, no stored object, no download
NoStreaming ==
    /\ tokens = <<>>
    /\ minted = <<>>
    /\ files = <<>>
    /\ dl = NoDownload

----------------------------------------------------------------------------
(* Pure helpers *)

\* sha256.Sum256 + hex.EncodeToString: injective on the chunk contents
Sha256Hex(data) == <<"sha256", data>>

\* the ETag the store returns for a part: a digest of the part's bytes
ETagOf(data) == <<"etag", data>>

\* len(chunkData) in MiB
DataLen(data) == 5

DigitVal(c) == IF \E i \in 1..10 : Digits[i] = c
               THEN (CHOOSE i \in 1..10 : Digits[i] = c) - 1
               ELSE -1

RECURSIVE ParseDigits(_, _)
ParseDigits(str, acc) ==
    IF str = <<>> THEN acc
    ELSE IF DigitVal(Head(str)) < 0 THEN -1
    ELSE ParseDigits(Tail(str), acc * 10 + DigitVal(Head(str)))

\* strconv.ParseUint(chunkIndexStr, 10, 32) with the error dropped: a syntax
\* error (empty text, a character that is no digit) yields 0
ParseUint(str) ==
    IF str = <<>> \/ ParseDigits(str, 0) < 0 THEN 0 ELSE ParseDigits(str, 0)

\* int32(chunkIndex) + 1 in 32-bit two's complement, for chunkIndex < 2^31
PartNumberOf(chunkIndex) ==
    IF chunkIndex = 2147483647 THEN -2147483647 - 1 ELSE chunkIndex + 1

\* strings.ToLower(filepath.Ext(fileName))
Ext(fileName) ==
    CASE fileName = "clip.mp4" -> ".mp4"
      [] fileName = "CLIP.MP4" -> ".mp4"
      [] fileName = "tool.exe" -> ".exe"
      [] fileName = "clip.mp4.gz" -> ".gz"
      [] OTHER -> ""

SUPPORTED_EXTENSIONS == {".mp4", ".pdf", ".jpg", ".jpeg", ".png", ".gif", ".webp",
                         ".mov", ".avi", ".mkv", ".mp3", ".wav", ".m4a"}

ContentTypeOf(ext) ==
    CASE ext = ".mp4" -> "video/mp4"
      [] ext = ".pdf" -> "application/pdf"
      [] OTHER -> "other"

SessionIDs == ((Emails \cup {""}) \X (0..MaxSessions)) \cup {BogusSessionID}

NoResp == [status |-> 0, kind |-> "none", duplicate |-> FALSE, chunk_index |-> -1,
           received |-> -1, total |-> -1, progress |-> -1,
           s3_key |-> <<>>, file_size |-> -1]

Idle == [pc |-> "idle", sess |-> 0, chunkIndex |-> 0, data |-> "",
         partNumber |-> 0, uploadID |-> 0, isDuplicate |-> FALSE,
         received |-> 0, total |-> 0, parts |-> <<>>, sid |-> BogusSessionID]

respondError(status, message) == [NoResp EXCEPT !.status = status, !.kind = message]

CountIn(calls, d) == IF d \in DOMAIN calls THEN calls[d] ELSE 0
Count(d) == CountIn(s3calls, d)
Bump(d) == IF d \in DOMAIN s3calls
           THEN [s3calls EXCEPT ![d] = @ + 1]
           ELSE s3calls @@ (d :> 1)

\* float64(received) / float64(total) * 100, rounded down; -1 stands for NaN/Inf
Progress(received, total) == IF total = 0 THEN -1 ELSE (received * 100) \div total

----------------------------------------------------------------------------
Init ==
    /\ now = 0
    /\ sessions = [id \in SessionIDs |-> 0]
    /\ heap = <<>>
    /\ s3 = [uploads |-> <<>>, objects |-> {}]
    /\ h = [p \in Procs |-> Idle]
    /\ out = NoResp
    /\ s3calls = <<>>
    /\ nreq = MaxRequests
    /\ NoStreaming

\* a request arrives at a free handler task; the tasks are interchangeable,
\* so the free task of lowest number takes it
Begin(p) ==
    /\ h[p].pc = "idle"
    /\ \A q \in DOMAIN h : q < p => h[q].pc # "idle"

\* the request passed its checks and is processed further
Accept(p, locals) ==
    /\ nreq > 0
    /\ nreq' = nreq - 1
    /\ h' = [h EXCEPT ![p] = locals]
    /\ out' = NoResp

\* the request is answered before any processing
Reject(p, r) ==
    /\ out' = r
    /\ UNCHANGED <<h, nreq>>

\* the handler moves on without answering yet
Goto(p, locals) ==
    /\ h' = [h EXCEPT ![p] = locals]
    /\ out' = NoResp

\* the handler writes its response and returns
Finish(p, r) ==
    /\ h' = [h EXCEPT ![p] = Idle]
    /\ out' = r

----------------------------------------------------------------------------
(* SessionManager.CreateSession: the new session object, or an error *)

NewSession(t, emailID, fileName, totalChunks, chunkSize, totalSize) ==
    [SessionID |-> <<emailID, t>>,
     EmailID |-> emailID,
     FileName |-> fileName,
     S3Key |-> <<emailID, t, fileName>>,
     FileExtension |-> Ext(fileName),
     ContentType |-> ContentTypeOf(Ext(fileName)),
     TotalChunks |-> totalChunks,
     ChunkSize |-> chunkSize,
     TotalSize |-> totalSize,
     State |-> "initialized",
     ReceivedChunks |-> <<>>,
     UploadID |-> 0,
     CompletedParts |-> <<>>,
     CreatedAt |-> t,
     UpdatedAt |-> t]

\* CreateSession without the limit on the file size
CreateSessionError_NoSizeCheck(fileName, totalSize) ==
    IF Ext(fileName) \notin SUPPORTED_EXTENSIONS THEN "unsupported file type"
    ELSE "ok"

CreateSessionError(fileName, totalSize) ==
    IF Ext(fileName) \notin SUPPORTED_EXTENSIONS THEN "unsupported file type"
    ELSE IF totalSize > MAX_FILE_SIZE THEN "file size exceeds maximum"
    ELSE "ok"

\* time.Now(): the clock has not gone back since the last reading; the first
\* reading fixes the origin
ClockReadings == IF heap = <<>> THEN {now} ELSE {now, now + 1}

\* handleInitUpload up to the CreateMultipartUpload call; t is the clock
\* reading of CreateSession
InitUploadStart(p, t, emailID, fileName, fileSize, totalChunks, chunkSize) ==
    /\ Begin(p)
    /\ t \in ClockReadings
    /\ IF emailID = "" THEN
            /\ Reject(p, respondError(400, "email_id is required"))
            /\ UNCHANGED <<now, sessions, heap>>
       ELSE IF fileName = "" THEN
            /\ Reject(p, respondError(400, "filename is required"))
            /\ UNCHANGED <<now, sessions, heap>>
       ELSE IF CreateSessionError(fileName, fileSize) # "ok" THEN
            /\ Reject(p, respondError(400, CreateSessionError(fileName, fileSize)))
            /\ UNCHANGED <<now, sessions, heap>>
       ELSE
            /\ now' = t
            /\ heap' = Append(heap, NewSession(t, emailID, fileName, totalChunks,
                                               chunkSize, fileSize))
            /\ sessions' = [sessions EXCEPT ![<<emailID, t>>] = Len(heap) + 1]
            /\ Accept(p, [Idle EXCEPT !.pc = "init_s3", !.sess = Len(heap) + 1])
    /\ UNCHANGED <<s3, s3calls>>

\* CreateMultipartUpload returns; the handler stores the upload id
InitUploadReturn(p, ok) ==
    /\ h[p].pc = "init_s3"
    /\ LET s == h[p].sess IN
       IF ok THEN
            /\ s3' = [s3 EXCEPT !.uploads = Append(@, [key |-> heap[s].S3Key,
                                                       status |-> "active",
                                                       parts |-> <<>>])]
            /\ heap' = [heap EXCEPT ![s].UploadID = Len(s3.uploads) + 1]
            /\ Finish(p, [NoResp EXCEPT !.status = 200, !.kind = "init",
                                        !.s3_key = heap[s].S3Key])
       ELSE
            /\ Finish(p, respondError(500, "Failed to initialize S3 upload"))
            /\ UNCHANGED <<s3, heap>>
    /\ UNCHANGED <<now, sessions, s3calls, nreq>>

----------------------------------------------------------------------------
(* The multipart side of the object store *)

UploadActive(uploadID) ==
    /\ uploadID \in 1..Len(s3.uploads)
    /\ s3.uploads[uploadID].status = "active"

\* the store keeps the bytes of the last successful UploadPart of a part number
StorePart(uploadID, partNumber, data) ==
    [s3 EXCEPT !.uploads[uploadID].parts =
        IF partNumber \in DOMAIN @ THEN [@ EXCEPT ![partNumber] = data]
        ELSE @ @@ (partNumber :> data)]

\* the store accepts a completion only for an active upload and a non-empty
\* list of parts it holds under the listed ETags
CompleteAcceptable(uploadID, parts) ==
    /\ UploadActive(uploadID)
    /\ parts # <<>>
    /\ \A i \in 1..Len(parts) :
          /\ parts[i].PartNumber \in DOMAIN s3.uploads[uploadID].parts
          /\ parts[i].ETag = ETagOf(s3.uploads[uploadID].parts[parts[i].PartNumber])

----------------------------------------------------------------------------
(* UploadSession methods, each one critical section under us.mu *)

\* AddChunk: the returned isDuplicate
AddChunkResult(us, index, hash) ==
    /\ index \in DOMAIN us.ReceivedChunks
    /\ us.ReceivedChunks[index].Hash = hash

\* AddChunk that replaces the entry of an index it already holds
AddChunk_Overwrite(us, index, size, hash, partNumber, etag) ==
    [us EXCEPT
        !.ReceivedChunks = (index :> [Index |-> index, Size |-> size,
                                      Hash |-> hash,
                                      PartNumber |-> partNumber,
                                      ETag |-> etag]) @@ @,
        !.CompletedParts = IF index \in DOMAIN us.ReceivedChunks THEN @
                           ELSE Append(@, [PartNumber |-> partNumber, ETag |-> etag]),
        !.UpdatedAt = now]

\* AddChunk that appends a completed part for a duplicate too
AddChunk_AppendAlways(us, index, size, hash, partNumber, etag) ==
    [us EXCEPT
        !.ReceivedChunks = @ @@ (index :> [Index |-> index, Size |-> size,
                                           Hash |-> hash,
                                           PartNumber |-> partNumber,
                                           ETag |-> etag]),
        !.CompletedParts = Append(@, [PartNumber |-> partNumber, ETag |-> etag]),
        !.UpdatedAt = now]

\* AddChunk: the session afterwards
AddChunk(us, index, size, hash, partNumber, etag) ==
    IF index \in DOMAIN us.ReceivedChunks THEN us
    ELSE [us EXCEPT
            !.ReceivedChunks = @ @@ (index :> [Index |-> index, Size |-> size,
                                               Hash |-> hash,
                                               PartNumber |-> partNumber,
                                               ETag |-> etag]),
            !.CompletedParts = Append(@, [PartNumber |-> partNumber, ETag |-> etag]),
            !.UpdatedAt = now]

GetProgress(us) == <<Cardinality(DOMAIN us.ReceivedChunks), us.TotalChunks>>

IsComplete(us) == Cardinality(DOMAIN us.ReceivedChunks) = us.TotalChunks

GetSession(sessionID) == sessions[sessionID]

\* the ownership check without effect
OwnerMismatch_Never(us, emailID) == FALSE

\* session.EmailID != emailID, the ownership check of the three handlers
OwnerMismatch(us, emailID) == us.EmailID # emailID

\* DeleteSession that leaves the table as it is
DeleteSession_Keep(sessionID) == sessions

DeleteSession(sessionID) == [sessions EXCEPT ![sessionID] = 0]

----------------------------------------------------------------------------
(* handleUploadChunk *)

\* from the form parsing up to the UploadPart call
UploadChunkStart(p, emailID, sessionID, chunkIndexStr, chunkData) ==
    /\ Begin(p)
    /\ LET chunkIndex == ParseUint(chunkIndexStr)
           s == GetSession(sessionID)
       IN
       IF emailID = "" THEN
            Reject(p, respondError(400, "email_id is required"))
       ELSE IF s = 0 THEN
            Reject(p, respondError(400, "Invalid session ID"))
       ELSE IF OwnerMismatch(heap[s], emailID) THEN
            Reject(p, respondError(403, "Unauthorized: email_id mismatch"))
       ELSE IF chunkData = "" THEN
            Reject(p, respondError(400, "Failed to read chunk"))
       ELSE
            Accept(p, [Idle EXCEPT !.pc = "chunk_s3", !.sess = s,
                                   !.chunkIndex = chunkIndex,
                                   !.data = chunkData,
                                   !.partNumber = PartNumberOf(chunkIndex),
                                   !.uploadID = heap[s].UploadID])
    /\ UNCHANGED <<now, sessions, heap, s3, s3calls>>

\* UploadPart returns
UploadPartReturn(p, ok) ==
    /\ h[p].pc = "chunk_s3"
    /\ ok => UploadActive(h[p].uploadID)
    /\ IF ok THEN
            /\ s3' = StorePart(h[p].uploadID, h[p].partNumber, h[p].data)
            /\ Goto(p, [h[p] EXCEPT !.pc = "chunk_add"])
            /\ s3calls' = Bump(<<"upload_part_ok", h[p].sess, h[p].partNumber,
                                 Sha256Hex(h[p].data)>>)
       ELSE
            /\ Finish(p, respondError(500, "S3 upload failed"))
            /\ UNCHANGED <<s3, s3calls>>
    /\ UNCHANGED <<now, sessions, heap, nreq>>

\* session.AddChunk(...)
UploadChunkAdd(p) ==
    /\ h[p].pc = "chunk_add"
    /\ LET s == h[p].sess
           hash == Sha256Hex(h[p].data)
       IN
       /\ heap' = [heap EXCEPT ![s] = AddChunk(@, h[p].chunkIndex, DataLen(h[p].data),
                                               hash, h[p].partNumber, ETagOf(h[p].data))]
       /\ Goto(p, [h[p] EXCEPT !.pc = "chunk_progress",
                               !.isDuplicate = AddChunkResult(heap[s], h[p].chunkIndex, hash)])
    /\ UNCHANGED <<now, sessions, s3, s3calls, nreq>>

\* session.GetProgress()
UploadChunkProgress(p) ==
    /\ h[p].pc = "chunk_progress"
    /\ Goto(p, [h[p] EXCEPT !.pc = "chunk_iscomplete",
                            !.received = GetProgress(heap[h[p].sess])[1],
                            !.total = GetProgress(heap[h[p].sess])[2]])
    /\ UNCHANGED <<now, sessions, heap, s3, s3calls, nreq>>

ChunkAck(l) == [NoResp EXCEPT !.status = 200, !.kind = "chunk",
                              !.duplicate = l.isDuplicate,
                              !.chunk_index = l.chunkIndex,
                              !.received = l.received,
                              !.total = l.total,
                              !.progress = Progress(l.received, l.total)]

\* session.IsComplete(), then finalizeUpload or the chunk acknowledgement
UploadChunkIsComplete(p) ==
    /\ h[p].pc = "chunk_iscomplete"
    /\ IF IsComplete(heap[h[p].sess])
       THEN Goto(p, [h[p] EXCEPT !.pc = "finalize"])
       ELSE Finish(p, ChunkAck(h[p]))
    /\ UNCHANGED <<now, sessions, heap, s3, s3calls, nreq>>

----------------------------------------------------------------------------
(* finalizeUpload *)

\* finalizeUpload without the replay of a completed upload
FinalizeDecision_NoCompletedCheck(state) ==
    CASE state = "finalizing" -> "finalizing"
      [] OTHER -> "proceed"

\* finalizeUpload without the check for a finalization under way
FinalizeDecision_NoFinalizingCheck(state) ==
    CASE state = "completed" -> "cached"
      [] OTHER -> "proceed"

\* finalizeUpload that looks at no state
FinalizeDecision_AlwaysProceed(state) == "proceed"

\* what finalizeUpload does on the state it finds under the session mutex
FinalizeDecision(state) ==
    CASE state = "completed" -> "cached"
      [] state = "finalizing" -> "finalizing"
      [] OTHER -> "proceed"

\* a failed completion that leaves the session in a terminal state
StateAfterCompleteError_Failed == "failed"

\* "Reset state to allow retry"
StateAfterCompleteError == "initialized"

CompletedEcho(us) == [NoResp EXCEPT !.status = 200, !.kind = "completed",
                                    !.s3_key = us.S3Key, !.file_size = us.TotalSize]

FinalizingAck == [NoResp EXCEPT !.status = 200, !.kind = "finalizing"]

\* the first critical section: inspect State, claim the finalization
FinalizeCheck(p) ==
    /\ h[p].pc = "finalize"
    /\ LET s == h[p].sess
           d == FinalizeDecision(heap[s].State)
       IN
       CASE d = "cached" ->
                /\ Finish(p, CompletedEcho(heap[s]))
                /\ UNCHANGED heap
         [] d = "finalizing" ->
                /\ Finish(p, FinalizingAck)
                /\ UNCHANGED heap
         [] OTHER ->
                /\ heap' = [heap EXCEPT ![s].State = "finalizing"]
                /\ Goto(p, [h[p] EXCEPT !.pc = "finalize_issue"])
    /\ UNCHANGED <<now, sessions, s3, s3calls, nreq>>

\* the CompleteMultipartUpload call is built (session.CompletedParts and
\* session.UploadID are read without the mutex) and sent
FinalizeIssue(p) ==
    /\ h[p].pc = "finalize_issue"
    /\ Goto(p, [h[p] EXCEPT !.pc = "finalize_s3",
                            !.parts = heap[h[p].sess].CompletedParts,
                            !.uploadID = heap[h[p].sess].UploadID])
    /\ s3calls' = Bump(<<"complete_issued", h[p].sess, 0, <<>>>>)
    /\ UNCHANGED <<now, sessions, heap, s3, nreq>>

\* CompleteMultipartUpload returns
FinalizeReturn(p, ok) ==
    /\ h[p].pc = "finalize_s3"
    /\ ok => CompleteAcceptable(h[p].uploadID, h[p].parts)
    /\ LET s == h[p].sess IN
       IF ok THEN
            /\ s3' = [s3 EXCEPT !.uploads[h[p].uploadID].status = "completed",
                                !.objects = @ \cup {s3.uploads[h[p].uploadID].key}]
            /\ heap' = [heap EXCEPT ![s].State = "completed", ![s].UpdatedAt = now]
            /\ s3calls' = Bump(<<"complete_ok", s, 0, <<>>>>)
            /\ Finish(p, CompletedEcho(heap[s]))
       ELSE
            /\ heap' = [heap EXCEPT ![s].State = StateAfterCompleteError]
            /\ Finish(p, respondError(500, "Failed to complete upload"))
            /\ UNCHANGED <<s3, s3calls>>
    /\ UNCHANGED <<now, sessions, nreq>>

----------------------------------------------------------------------------
(* handleCompleteUpload *)

CompleteUploadStart(p, emailID, sessionID) ==
    /\ Begin(p)
    /\ LET s == GetSession(sessionID) IN
       IF s = 0 THEN
            Reject(p, respondError(400, "Invalid session ID"))
       ELSE IF OwnerMismatch(heap[s], emailID) THEN
            Reject(p, respondError(403, "Unauthorized: email_id mismatch"))
       ELSE
            Accept(p, [Idle EXCEPT !.pc = "complete_iscomplete", !.sess = s])
    /\ UNCHANGED <<now, sessions, heap, s3, s3calls>>

CompleteUploadIsComplete(p) ==
    /\ h[p].pc = "complete_iscomplete"
    /\ IF IsComplete(heap[h[p].sess])
       THEN Goto(p, [h[p] EXCEPT !.pc = "finalize"])
       ELSE Finish(p, respondError(400, "Upload not complete"))
    /\ UNCHANGED <<now, sessions, heap, s3, s3calls, nreq>>

----------------------------------------------------------------------------
(* handleCancelUpload *)

CancelledAck == [NoResp EXCEPT !.status = 200, !.kind = "cancelled"]

\* a missing session answered as an error
SessionNotFoundAck_AsError == respondError(400, "Invalid session ID")

SessionNotFoundAck == [NoResp EXCEPT !.status = 200,
                                     !.kind = "session_not_found_or_already_deleted"]

\* up to the AbortMultipartUpload call
CancelUploadStart(p, emailID, sessionID) ==
    /\ Begin(p)
    /\ LET s == GetSession(sessionID) IN
       IF s = 0 THEN
            /\ Reject(p, SessionNotFoundAck)
            /\ UNCHANGED <<sessions, s3calls>>
       ELSE IF OwnerMismatch(heap[s], emailID) THEN
            /\ Reject(p, respondError(403, "Unauthorized: email_id mismatch"))
            /\ UNCHANGED <<sessions, s3calls>>
       ELSE IF heap[s].UploadID # 0 THEN
            /\ Accept(p, [Idle EXCEPT !.pc = "cancel_s3", !.sess = s,
                                      !.sid = sessionID,
                                      !.uploadID = heap[s].UploadID])
            /\ s3calls' = Bump(<<"abort_issued", s, 0, <<>>>>)
            /\ UNCHANGED sessions
       ELSE
            /\ nreq > 0
            /\ nreq' = nreq - 1
            /\ sessions' = DeleteSession(sessionID)
            /\ out' = CancelledAck
            /\ UNCHANGED <<h, s3calls>>
    /\ UNCHANGED <<now, heap, s3>>

\* AbortMultipartUpload returns (an error is only logged), then DeleteSession
CancelAbortReturn(p, ok) ==
    /\ h[p].pc = "cancel_s3"
    /\ ok => UploadActive(h[p].uploadID)
    /\ s3' = IF ok THEN [s3 EXCEPT !.uploads[h[p].uploadID].status = "aborted",
                                   !.uploads[h[p].uploadID].parts = <<>>]
             ELSE s3
    /\ sessions' = DeleteSession(h[p].sid)
    /\ Finish(p, CancelledAck)
    /\ UNCHANGED <<now, heap, s3calls, nreq>>

----------------------------------------------------------------------------
(* The requests the clients send *)

LiveSessionIDs == {id \in SessionIDs : sessions[id] # 0} \cup {BogusSessionID}

InitRequests ==
    {r \in [emailID : Owners \cup {""}, fileName : FileNames, fileSize : FileSizes,
            totalChunks : 0..MaxChunks, chunkSize : ChunkSizes] :
        (r.emailID = "" \/ Ext(r.fileName) \notin SUPPORTED_EXTENSIONS
                        \/ r.fileSize > MAX_FILE_SIZE)
            => r.totalChunks = 1}

ChunkRequests ==
    {r \in [emailID : Emails \cup {""}, chunkIndexStr : ChunkIndexStrs,
            chunkData : ChunkDatas] :
        (r.emailID = "" \/ r.chunkData = "") => r.chunkIndexStr = <<"0">>}

\* the steps of a handler that is past the request parsing
Continue(p) ==
    \/ \E ok \in BOOLEAN : InitUploadReturn(p, ok)
    \/ \E ok \in BOOLEAN : UploadPartReturn(p, ok)
    \/ UploadChunkAdd(p)
    \/ UploadChunkProgress(p)
    \/ UploadChunkIsComplete(p)
    \/ FinalizeCheck(p)
    \/ FinalizeIssue(p)
    \/ \E ok \in BOOLEAN : FinalizeReturn(p, ok)
    \/ CompleteUploadIsComplete(p)
    \/ \E ok \in BOOLEAN : CancelAbortReturn(p, ok)

Next ==
    /\ UNCHANGED svars
    /\ \E p \in DOMAIN h :
           \/ \E t \in ClockReadings, r \in InitRequests :
                   /\ Len(heap) < MaxSessions
                   /\ InitUploadStart(p, t, r.emailID, r.fileName, r.fileSize,
                                      r.totalChunks, r.chunkSize)
           \/ \E sessionID \in LiveSessionIDs, r \in ChunkRequests :
                   UploadChunkStart(p, r.emailID, sessionID, r.chunkIndexStr, r.chunkData)
           \/ \E emailID \in Emails, sessionID \in LiveSessionIDs :
                   CompleteUploadStart(p, emailID, sessionID)
           \/ \E emailID \in Emails, sessionID \in LiveSessionIDs :
                   CancelUploadStart(p, emailID, sessionID)
           \/ Continue(p)

Spec == Init /\ [][Next]_vars

----------------------------------------------------------------------------
(* The finalization of one upload: its owner starts one upload of one or two
   chunks and sends chunks and /upload/complete requests for it *)

InitFinalize ==
    /\ now = 0
    /\ sessions = [id \in SessionIDs |-> 0]
    /\ heap = <<>>
    /\ s3 = [uploads |-> <<>>, objects |-> {}]
    /\ h = [p \in 1..FinHandlers |-> Idle]
    /\ out = NoResp
    /\ s3calls = <<>>
    /\ nreq = FinRequests
    /\ NoStreaming

NextFinalize ==
    /\ UNCHANGED svars
    /\ \E p \in DOMAIN h :
           \/ \E emailID \in Owners, totalChunks \in {1, 2} :
                   /\ heap = <<>>
                   /\ InitUploadStart(p, now, emailID, "clip.mp4", 12, totalChunks, 5)
           \/ \E sessionID \in LiveSessionIDs \ {BogusSessionID}, emailID \in Owners,
                 chunkIndexStr \in {<<"0">>, <<"1">>} :
                   UploadChunkStart(p, emailID, sessionID, chunkIndexStr, "A")
           \/ \E sessionID \in LiveSessionIDs \ {BogusSessionID}, emailID \in Owners :
                   CompleteUploadStart(p, emailID, sessionID)
           \/ Continue(p)

SpecFinalize == InitFinalize /\ [][NextFinalize]_vars

----------------------------------------------------------------------------
(* Retries of one upload: its owner starts one upload of two chunks and
   sends the first chunk with either of two contents and the second chunk
   with one, each any number of times; the
   handler that finds every chunk received finalizes *)

InitParts ==
    /\ now = 0
    /\ sessions = [id \in SessionIDs |-> 0]
    /\ heap = <<>>
    /\ s3 = [uploads |-> <<>>, objects |-> {}]
    /\ h = [p \in 1..PartHandlers |-> Idle]
    /\ out = NoResp
    /\ s3calls = <<>>
    /\ nreq = PartRequests
    /\ NoStreaming

PartChunkRequests == {<<<<"0">>, "A">>, <<<<"0">>, "B">>, <<<<"1">>, "A">>}

NextParts ==
    /\ UNCHANGED svars
    /\ \E p \in DOMAIN h :
           \/ /\ heap = <<>>
              /\ InitUploadStart(p, now, "a", "clip.mp4", 12, 2, 6)
           \/ \E sessionID \in LiveSessionIDs \ {BogusSessionID}, r \in PartChunkRequests :
                   UploadChunkStart(p, "a", sessionID, r[1], r[2])
           \/ Continue(p)

SpecParts == InitParts /\ [][NextParts]_vars

----------------------------------------------------------------------------
(* Uploads that are left to finalize themselves: the owner starts one upload
   and sends chunks, never /upload/complete; the store completes an upload
   whenever the call is acceptable, and every handler that can take a step
   eventually takes one *)

ContinueAuto(p) ==
    \/ \E ok \in BOOLEAN : InitUploadReturn(p, ok)
    \/ \E ok \in BOOLEAN : UploadPartReturn(p, ok)
    \/ UploadChunkAdd(p)
    \/ UploadChunkProgress(p)
    \/ UploadChunkIsComplete(p)
    \/ FinalizeCheck(p)
    \/ FinalizeIssue(p)
    \/ FinalizeReturn(p, CompleteAcceptable(h[p].uploadID, h[p].parts))

NextAuto ==
    /\ UNCHANGED svars
    /\ \E p \in DOMAIN h :
           \/ \E emailID \in Owners, totalChunks \in {1, 2} :
                   /\ heap = <<>>
                   /\ InitUploadStart(p, now, emailID, "clip.mp4", 12, totalChunks, 5)
           \/ \E sessionID \in LiveSessionIDs \ {BogusSessionID}, emailID \in Owners,
                 chunkIndexStr \in {<<"0">>, <<"1">>} :
                   UploadChunkStart(p, emailID, sessionID, chunkIndexStr, "A")
           \/ ContinueAuto(p)

SpecAuto ==
    /\ InitFinalize
    /\ [][NextAuto]_vars
    /\ \A p \in 1..FinHandlers : WF_vars(ContinueAuto(p) /\ UNCHANGED svars)

----------------------------------------------------------------------------
(* The life of one upload: its owner starts one upload of one or two chunks;
   the owner and another caller send chunks, /upload/complete and
   /upload/cancel requests for it, for its id after it is gone and for an id
   that never existed *)

InitLifecycle ==
    /\ now = 0
    /\ sessions = [id \in SessionIDs |-> 0]
    /\ heap = <<>>
    /\ s3 = [uploads |-> <<>>, objects |-> {}]
    /\ h = [p \in 1..LifeHandlers |-> Idle]
    /\ out = NoResp
    /\ s3calls = <<>>
    /\ nreq = LifeRequests
    /\ NoStreaming

LifeChunkIndexStrs == {<<"0">>, <<"1">>}
LifeChunkDatas == {"A"}

KnownSessionIDs == {heap[s].SessionID : s \in 1..Len(heap)} \cup {BogusSessionID}

NextLifecycle ==
    /\ UNCHANGED svars
    /\ \E p \in DOMAIN h :
           \/ \E emailID \in Owners, totalChunks \in {1, 2} :
                   /\ heap = <<>>
                   /\ InitUploadStart(p, now, emailID, "clip.mp4", 12, totalChunks, 5)
           \/ \E sessionID \in KnownSessionIDs, emailID \in Emails,
                 chunkIndexStr \in LifeChunkIndexStrs, chunkData \in LifeChunkDatas :
                   UploadChunkStart(p, emailID, sessionID, chunkIndexStr, chunkData)
           \/ \E sessionID \in KnownSessionIDs, emailID \in Emails \cup {""} :
                   CompleteUploadStart(p, emailID, sessionID)
           \/ \E sessionID \in KnownSessionIDs, emailID \in Emails \cup {""} :
                   CancelUploadStart(p, emailID, sessionID)
           \/ Continue(p)

SpecLifecycle == InitLifecycle /\ [][NextLifecycle]_vars

----------------------------------------------------------------------------
(* Text: strings are sequences of characters where the code looks inside them *)

\* strconv.FormatInt / the %d verb, for n >= 0
RECURSIVE FormatInt(_)
FormatInt(n) ==
    IF n < 10 THEN <<Digits[n + 1]>>
    ELSE FormatInt(n \div 10) \o <<Digits[(n % 10) + 1]>>

\* strings.HasPrefix that accepts every key
HasPrefix_Always(str, prefix) == TRUE

\* strings.HasPrefix
HasPrefix(str, prefix) ==
    /\ Len(prefix) <= Len(str)
    /\ SubSeq(str, 1, Len(prefix)) = prefix

\* the longest run of decimal digits at the head of str
RECURSIVE LeadingDigits(_)
LeadingDigits(str) ==
    IF str = <<>> \/ DigitVal(Head(str)) < 0 THEN <<>>
    ELSE <<Head(str)>> \o LeadingDigits(Tail(str))

\* fmt.Sscanf(rangeHeader, "bytes=%d-%d", &start, &end): the verbs that were
\* not reached leave their variable at 0
Sscanf_Range(rangeHeader) ==
    IF ~HasPrefix(rangeHeader, <<"bytes=">>) THEN <<0, 0>>
    ELSE LET r1 == Tail(rangeHeader)
             d1 == LeadingDigits(r1)
             r2 == SubSeq(r1, Len(d1) + 1, Len(r1))
         IN IF d1 = <<>> THEN <<0, 0>>
            ELSE IF r2 = <<>> \/ Head(r2) # "-" THEN <<ParseDigits(d1, 0), 0>>
            ELSE LET d2 == LeadingDigits(Tail(r2))
                 IN IF d2 = <<>> THEN <<ParseDigits(d1, 0), 0>>
                    ELSE <<ParseDigits(d1, 0), ParseDigits(d2, 0)>>

----------------------------------------------------------------------------
(* TokenManager *)

\* fmt.Sprintf("%s:%s:%d", emailID, s3Key, nanos), then sha256 and hex
TokenOf(emailID, s3Key, nanos) ==
    <<"sha256", emailID \o <<":">> \o s3Key \o <<":">> \o FormatInt(nanos)>>

\* CreateStreamingToken: the cache afterwards; the token is made from the
\* clock reading t1, the expiry from the reading t2
CreateStreamingToken(emailID, s3Key, t1, t2) ==
    LET token == TokenOf(emailID, s3Key, t1)
        entry == [Token |-> token, EmailID |-> emailID, S3Key |-> s3Key,
                  ExpiresAt |-> t2 + TOKEN_LIFETIME]
    IN IF token \in DOMAIN tokens THEN [tokens EXCEPT ![token] = entry]
       ELSE tokens @@ (token :> entry)

\* an expiry check that never fires
Expired_Never(st, t) == FALSE

\* time.Now().After(st.ExpiresAt)
Expired(st, t) == t > st.ExpiresAt

\* ValidateStreamingToken: the returned flag
ValidateStreamingToken(token) ==
    /\ token \in DOMAIN tokens
    /\ ~Expired(tokens[token], now)

\* one round of cleanupExpiredTokens
cleanupExpiredTokens ==
    /\ tokens' = [token \in {k \in DOMAIN tokens : ~Expired(tokens[k], now)} |->
                    tokens[token]]
    /\ UNCHANGED <<now, out, minted, files, dl, uvars>>

\* time passes
Tick ==
    /\ now < MaxTime
    /\ now' = now + 1
    /\ UNCHANGED <<out, svars, uvars>>

----------------------------------------------------------------------------
(* handleRequestStreamingToken *)

StreamResp == [status |-> 0, kind |-> "none", token |-> <<>>, s3_key |-> <<>>,
               start |-> -1, end |-> -1, size |-> -1, length |-> -1, body |-> <<>>]

streamError(status, message) == [StreamResp EXCEPT !.status = status, !.kind = message]

\* t2 is the second clock reading of CreateStreamingToken
handleRequestStreamingToken(emailID, s3Key, t2) ==
    /\ t2 \in {now, now + 1}
    /\ t2 <= MaxTime
    /\ IF emailID = <<>> THEN
            /\ out' = streamError(400, "email_id is required")
            /\ UNCHANGED <<now, tokens, minted>>
       ELSE IF ~HasPrefix(s3Key, emailID \o <<"/">>) THEN
            /\ out' = streamError(403, "Unauthorized")
            /\ UNCHANGED <<now, tokens, minted>>
       ELSE
            /\ Len(minted) < MaxMints
            /\ tokens' = CreateStreamingToken(emailID, s3Key, now, t2)
            /\ minted' = Append(minted, [token |-> TokenOf(emailID, s3Key, now),
                                         expires |-> t2 + TOKEN_LIFETIME])
            /\ now' = t2
            /\ out' = [StreamResp EXCEPT !.status = 200, !.kind = "token",
                                         !.token = TokenOf(emailID, s3Key, now),
                                         !.s3_key = s3Key]
    /\ UNCHANGED <<files, dl, uvars>>

----------------------------------------------------------------------------
(* handleStreamFile *)

\* the effective range <<start, end>> of a request with a Range header
EffectiveRange(rangeHeader, fileSize) ==
    LET start == Sscanf_Range(rangeHeader)[1]
        end == Sscanf_Range(rangeHeader)[2]
    IN IF end = 0 \/ end >= fileSize THEN <<start, fileSize - 1>>
       ELSE <<start, end>>

\* GetObject with Range "bytes=start-end": the store has these bytes
RangeSatisfiable(bytes, start, end) == 0 <= start /\ start <= end /\ start < Len(bytes)

\* the bytes start..end of the object, counted from 0
GetObjectRange(bytes, start, end) ==
    SubSeq(bytes, start + 1, (IF end < Len(bytes) THEN end ELSE Len(bytes) - 1) + 1)

\* GetObject with Range "bytes=start-end" whose last position precedes the
\* first: the range is no byte range, and a store either refuses the call or
\* ignores the header and sends the whole object
RangeInvalid(start, end) == start > end

\* the response of /stream; headOk and getOk tell whether the store answers
\* the HeadObject and the GetObject call
StreamResponse(token, rangeHeader, headOk, getOk) ==
    IF token = <<>> THEN streamError(401, "Missing streaming token")
    ELSE IF ~ValidateStreamingToken(token)
    THEN streamError(403, "Invalid or expired streaming token")
    ELSE LET s3Key == tokens[token].S3Key IN
         IF ~(headOk /\ s3Key \in DOMAIN files) THEN streamError(404, "File not found")
         ELSE LET bytes == files[s3Key]
                  fileSize == Len(bytes)
              IN IF rangeHeader # <<>> THEN
                    LET start == EffectiveRange(rangeHeader, fileSize)[1]
                        end == EffectiveRange(rangeHeader, fileSize)[2]
                    IN IF ~getOk THEN streamError(500, "Failed to stream file")
                       ELSE IF RangeInvalid(start, end)
                       THEN [StreamResp EXCEPT !.status = 206, !.kind = "partial",
                                               !.s3_key = s3Key,
                                               !.start = start, !.end = end,
                                               !.size = fileSize,
                                               !.length = end - start + 1,
                                               !.body = <<>>]
                       ELSE IF ~RangeSatisfiable(bytes, start, end)
                       THEN streamError(500, "Failed to stream file")
                       ELSE [StreamResp EXCEPT !.status = 206, !.kind = "partial",
                                               !.s3_key = s3Key,
                                               !.start = start, !.end = end,
                                               !.size = fileSize,
                                               !.length = end - start + 1,
                                               !.body = GetObjectRange(bytes, start, end)]
                 ELSE IF ~getOk THEN streamError(500, "Failed to stream file")
                 ELSE [StreamResp EXCEPT !.status = 200, !.kind = "whole",
                                         !.s3_key = s3Key, !.size = fileSize,
                                         !.length = fileSize, !.body = bytes]

handleStreamFile(token, rangeHeader, headOk, getOk) ==
    /\ out' = StreamResponse(token, rangeHeader, headOk, getOk)
    /\ UNCHANGED <<now, svars, uvars>>

----------------------------------------------------------------------------
(* The clients of the streaming service *)

\* "bytes=a-b" and "bytes=a-"
FormatRange(a, b) == <<"bytes=">> \o FormatInt(a) \o <<"-">> \o FormatInt(b)
FormatOpenRange(a) == <<"bytes=">> \o FormatInt(a) \o <<"-">>

\* the object every stream of the run is about, and a key of another owner
TheKey == <<"a", "/", "x">>
OtherKey == <<"a", "b", "/", "x">>
StreamEmails == {<<>>, <<"a">>, <<"a", "b">>}
StreamKeys == {TheKey, OtherKey}
FileBytes == <<"p", "q", "r", "s", "t", "u">>
FileContents == {SubSeq(FileBytes, 1, n) : n \in 0..MaxFileLen}
BogusToken == <<"sha256", <<>>>>
RangeHeaders ==
    {<<>>, <<"bytes=">>}
        \cup {FormatRange(a, b) : a \in 0..MaxFileLen, b \in 0..MaxFileLen}
        \cup {FormatOpenRange(a) : a \in 0..MaxFileLen}

\* the tokens a client may present: those it was given, a made-up one, none
StreamTokens == {minted[i].token : i \in 1..Len(minted)} \cup {BogusToken, <<>>}

\* the client fetches the next range of the object, up to byte b or, with
\* b = -1, to the end, and appends the body of a 206 answer to what it has
DownloadNext(token, b) ==
    /\ TheKey \in DOMAIN files
    /\ token \in DOMAIN tokens
    /\ tokens[token].S3Key = TheKey
    /\ dl.next < Len(files[TheKey])
    /\ b = -1 \/ (dl.next <= b /\ b < Len(files[TheKey]))
    /\ out' = StreamResponse(token,
                             IF b = -1 THEN FormatOpenRange(dl.next)
                             ELSE FormatRange(dl.next, b),
                             TRUE, TRUE)
    /\ dl' = IF out'.status = 206
             THEN [next |-> IF b = -1 THEN Len(files[TheKey]) ELSE b + 1,
                   body |-> dl.body \o out'.body]
             ELSE dl
    /\ UNCHANGED <<now, tokens, minted, files, uvars>>

\* the answers of the store to HeadObject and GetObject: a GetObject call
\* follows a HeadObject call that was answered
StoreOutcomes == {<<TRUE, TRUE>>, <<TRUE, FALSE>>, <<FALSE, TRUE>>}

\* the streaming service with the object bytes stored under TheKey
InitStreaming(bytes) ==
    /\ now = 0
    /\ sessions = [id \in SessionIDs |-> 0]
    /\ heap = <<>>
    /\ s3 = [uploads |-> <<>>, objects |-> {}]
    /\ h = [p \in Procs |-> Idle]
    /\ out = NoResp
    /\ s3calls = <<>>
    /\ nreq = 0
    /\ tokens = <<>>
    /\ minted = <<>>
    /\ files = (TheKey :> bytes)
    /\ dl = NoDownload

(* The life of the streaming tokens: callers ask for tokens and present
   them, whole or with a range, while time passes and the janitor runs *)

InitTokens == InitStreaming(SubSeq(FileBytes, 1, MaxFileLen))

NextTokens ==
    \/ \E emailID \in StreamEmails, s3Key \in StreamKeys, t2 \in {now, now + 1} :
            handleRequestStreamingToken(emailID, s3Key, t2)
    \/ \E token \in StreamTokens, rangeHeader \in {<<>>, FormatOpenRange(0)},
          o \in StoreOutcomes :
            handleStreamFile(token, rangeHeader, o[1], o[2])
    \/ cleanupExpiredTokens
    \/ Tick

SpecTokens == InitTokens /\ [][NextTokens]_vars

(* Range requests: callers with tokens stream an object of any length with
   any Range header, and a client downloads it range by range *)

InitStream == \E bytes \in FileContents : InitStreaming(bytes)

NextStream ==
    \/ \E emailID \in StreamEmails, s3Key \in StreamKeys :
            handleRequestStreamingToken(emailID, s3Key, now)
    \/ \E token \in StreamTokens, rangeHeader \in RangeHeaders,
          o \in StoreOutcomes :
            handleStreamFile(token, rangeHeader, o[1], o[2])
    \/ \E token \in StreamTokens, b \in -1..MaxFileLen : DownloadNext(token, b)

SpecStream == InitStream /\ [][NextStream]_vars

----------------------------------------------------------------------------
(* handleListFiles *)

\* the most keys one ListObjectsV2 answer holds when the request sets no
\* MaxKeys; the answer is then marked IsTruncated, which the handler ignores
LIST_MAX_KEYS == 1000

\* a decimal numeral of four digits
Numeral4(i) == Tail(FormatInt(10000 + i))

\* emailID/timestamp: the i-th object stored for an owner; the timestamps are
\* numerals of fixed width, so the keys of an owner sort in order of arrival
ObjectKey(emailID, i) == emailID \o <<"/">> \o Numeral4(i)

ListEmails == {<<>>, <<"a">>, <<"a", "b">>}

\* every key the bucket may come to hold, in the byte order of the key text,
\* the order in which the store lists keys ("a/0" sorts before "a/b/", and
\* that before "ab/")
BucketKeys ==
    [i \in 1..(LIST_MAX_KEYS - 1 + MaxPuts) |-> ObjectKey(<<"a">>, i)]
        \o [i \in 1..MaxPuts |-> ObjectKey(<<"a", "/", "b">>, i)]
        \o [i \in 1..MaxPuts |-> ObjectKey(<<"a", "b">>, i)]

\* ListObjectsV2 with Prefix and without MaxKeys or ContinuationToken: the
\* first page of the stored keys that begin with prefix
ListObjectsV2(prefix) ==
    LET Listed(k) == k \in DOMAIN files /\ HasPrefix(k, prefix)
        all == SelectSeq(BucketKeys, Listed)
    IN IF Len(all) <= LIST_MAX_KEYS THEN all ELSE SubSeq(all, 1, LIST_MAX_KEYS)

ListResp == [status |-> 0, kind |-> "none", files |-> <<>>, count |-> -1]

listError(status, message) == [ListResp EXCEPT !.status = status, !.kind = message]

\* the response of /files; ok tells whether the store answers the call
ListResponse(emailID, ok) ==
    IF emailID = <<>> THEN listError(400, "email_id is required")
    ELSE IF ~ok THEN listError(500, "Failed to list files")
    ELSE LET contents == ListObjectsV2(emailID \o <<"/">>)
         IN [ListResp EXCEPT !.status = 200, !.kind = "files",
                             !.files = [i \in 1..Len(contents) |->
                                            [key |-> contents[i],
                                             size |-> Len(files[contents[i]])]],
                             !.count = Len(contents)]

handleListFiles(emailID, ok) ==
    /\ out' = ListResponse(emailID, ok)
    /\ UNCHANGED <<now, svars, uvars>>

\* an upload of the owner completes: the store holds one object more
PutObject(emailID) ==
    /\ nreq > 0
    /\ nreq' = nreq - 1
    /\ LET n == Cardinality({k \in DOMAIN files : HasPrefix(k, emailID \o <<"/">>)})
       IN files' = files @@ (ObjectKey(emailID, n + 1) :> <<>>)
    /\ out' = NoResp
    /\ UNCHANGED <<now, sessions, heap, s3, h, s3calls, tokens, minted, dl>>

(* The bucket as /files sees it: it holds n objects of owner "a" when the
   server starts, and uploads of two owners complete while callers list *)

InitListing(n) ==
    /\ now = 0
    /\ sessions = [id \in SessionIDs |-> 0]
    /\ heap = <<>>
    /\ s3 = [uploads |-> <<>>, objects |-> {}]
    /\ h = [p \in Procs |-> Idle]
    /\ out = NoResp
    /\ s3calls = <<>>
    /\ nreq = MaxPuts
    /\ tokens = <<>>
    /\ minted = <<>>
    /\ files = [k \in {ObjectKey(<<"a">>, i) : i \in 1..n} |-> <<>>]
    /\ dl = NoDownload

InitList == \E n \in {0, 1, LIST_MAX_KEYS - 2, LIST_MAX_KEYS - 1} : InitListing(n)

NextList ==
    \/ \E emailID \in ListEmails, ok \in BOOLEAN : handleListFiles(emailID, ok)
    \/ \E emailID \in ListEmails \ {<<>>} : PutObject(emailID)

SpecList == InitList /\ [][NextList]_vars

----------------------------------------------------------------------------
(* Three owners side by side: each has completed one upload, and each asks
   for its list, for tokens for any stored key, and presents the tokens *)

\* email_ids that init_upload accepts: any text that is not empty
IsolationOwners == {<<"a">>, <<"a", "/", "b">>, <<"a", "b">>}

InitIsolation ==
    /\ now = 0
    /\ sessions = [id \in SessionIDs |-> 0]
    /\ heap = <<>>
    /\ s3 = [uploads |-> <<>>, objects |-> {}]
    /\ h = [p \in Procs |-> Idle]
    /\ out = NoResp
    /\ s3calls = <<>>
    /\ nreq = 0
    /\ tokens = <<>>
    /\ minted = <<>>
    /\ files = [k \in {ObjectKey(emailID, 1) : emailID \in IsolationOwners} |-> <<"p">>]
    /\ dl = NoDownload

NextIsolation ==
    \/ \E emailID \in IsolationOwners, s3Key \in DOMAIN files, t2 \in {now, now + 1} :
            handleRequestStreamingToken(emailID, s3Key, t2)
    \/ \E token \in StreamTokens : handleStreamFile(token, <<>>, TRUE, TRUE)
    \/ \E emailID \in IsolationOwners : handleListFiles(emailID, TRUE)

SpecIsolation == InitIsolation /\ [][NextIsolation]_vars

----------------------------------------------------------------------------
(* The creation of sessions: callers send /upload/init requests, well-formed
   ones and ones with a field missing or out of its bounds, at the same or
   at successive clock readings, and the store answers or fails *)

InitCreate ==
    /\ now = 0
    /\ sessions = [id \in SessionIDs |-> 0]
    /\ heap = <<>>
    /\ s3 = [uploads |-> <<>>, objects |-> {}]
    /\ h = [p \in 1..CreateHandlers |-> Idle]
    /\ out = NoResp
    /\ s3calls = <<>>
    /\ nreq = CreateRequests
    /\ NoStreaming

\* a file of 12 MiB in 3 chunks of 5 MiB
GoodCreateRequest ==
    [emailID |-> "a", fileName |-> "clip.mp4", fileSize |-> 12,
     totalChunks |-> 3, chunkSize |-> MIN_CHUNK_SIZE]

\* the well-formed request and the requests that differ from it in the
\* owner, the filename or the file size
CreateRequestSet ==
    {GoodCreateRequest, [GoodCreateRequest EXCEPT !.emailID = ""],
     [GoodCreateRequest EXCEPT !.emailID = "", !.fileName = ""]}
        \cup {[GoodCreateRequest EXCEPT !.fileName = f] :
                 f \in {"", "CLIP.MP4", "tool.exe", "clip.mp4.gz", "notes"}}
        \cup {[GoodCreateRequest EXCEPT !.fileSize = n] :
                 n \in {MAX_FILE_SIZE, MAX_FILE_SIZE + 1}}

\* the well-formed request and the requests that differ from it in the
\* number or the size of the chunks
ChunkingRequestSet ==
    {GoodCreateRequest}
        \cup {[GoodCreateRequest EXCEPT !.totalChunks = n] : n \in {0, 1, 2}}
        \cup {[GoodCreateRequest EXCEPT !.chunkSize = n] :
                 n \in {MIN_CHUNK_SIZE - 1, MAX_CHUNK_SIZE, MAX_CHUNK_SIZE + 1}}

NextCreate ==
    /\ UNCHANGED svars
    /\ \E p \in DOMAIN h :
           \/ \E t \in ClockReadings, r \in CreateRequestSet :
                   /\ t <= MaxSessions
                   /\ InitUploadStart(p, t, r.emailID, r.fileName, r.fileSize,
                                      r.totalChunks, r.chunkSize)
           \/ \E ok \in BOOLEAN : InitUploadReturn(p, ok)

SpecCreate == InitCreate /\ [][NextCreate]_vars

NextChunking ==
    /\ UNCHANGED svars
    /\ \E p \in DOMAIN h :
           \/ \E t \in ClockReadings, r \in ChunkingRequestSet :
                   /\ t <= MaxSessions
                   /\ InitUploadStart(p, t, r.emailID, r.fileName, r.fileSize,
                                      r.totalChunks, r.chunkSize)
           \/ \E ok \in BOOLEAN : InitUploadReturn(p, ok)

SpecChunking == InitCreate /\ [][NextChunking]_vars

----------------------------------------------------------------------------
(* SessionManager.cleanupLoop *)

\* now.Sub(session.UpdatedAt) > SESSION_TIMEOUT
Stale(us, t) == t - us.UpdatedAt > SESSION_TIMEOUT

\* the ids a scan at the clock reading t deletes from the table
CleanupVictims(t) ==
    {id \in DOMAIN sessions : sessions[id] # 0 /\ Stale(heap[sessions[id]], t)}

\* those of them for which the scan calls AbortMultipartUpload
CleanupAborts(t) ==
    {id \in CleanupVictims(t) : /\ heap[sessions[id]].UploadID # 0
                                /\ heap[sessions[id]].State # "completed"}

\* one scan of the table under sm.mu; the result of an abort is dropped, okIds
\* are the sessions whose upload the store does abort
cleanupLoop ==
    /\ \E okIds \in SUBSET CleanupAborts(now) :
          /\ \A id \in okIds : UploadActive(heap[sessions[id]].UploadID)
          /\ s3' = [s3 EXCEPT !.uploads =
                      [u \in DOMAIN s3.uploads |->
                          IF \E id \in okIds : heap[sessions[id]].UploadID = u
                          THEN [s3.uploads[u] EXCEPT !.status = "aborted", !.parts = <<>>]
                          ELSE s3.uploads[u]]]
    /\ LET calls == {<<"abort_issued", sessions[id], 0, <<>>>> : id \in CleanupAborts(now)}
       IN s3calls' = [d \in DOMAIN s3calls \cup calls |->
                         CountIn(s3calls, d) + (IF d \in calls THEN 1 ELSE 0)]
    /\ sessions' = [id \in DOMAIN sessions |->
                       IF id \in CleanupVictims(now) THEN 0 ELSE sessions[id]]
    /\ out' = NoResp
    /\ UNCHANGED <<now, heap, h, nreq, svars>>

\* time passes: the run looks at the clock on the hour and a minute later
Elapse ==
    /\ now <= MaxHours * 60
    /\ now' = IF now % 60 = 0 THEN now + 1 ELSE ((now \div 60) + 1) * 60
    /\ UNCHANGED <<out, svars, uvars>>

(* An upload and the janitor: the owner starts an upload of one chunk and
   sends the chunk and /upload/complete requests, answered or failed by the
   store, while the hours pass and the janitor scans the table *)

InitJanitor ==
    /\ now = 0
    /\ sessions = [id \in SessionIDs |-> 0]
    /\ heap = <<>>
    /\ s3 = [uploads |-> <<>>, objects |-> {}]
    /\ h = [p \in {1} |-> Idle]
    /\ out = NoResp
    /\ s3calls = <<>>
    /\ nreq = JanitorRequests
    /\ NoStreaming

NextJanitor ==
    \/ /\ UNCHANGED svars
       /\ \E p \in DOMAIN h :
             \/ \E emailID \in Owners :
                     /\ heap = <<>>
                     /\ InitUploadStart(p, now, emailID, "clip.mp4", 5, 1, 5)
             \/ \E sessionID \in KnownSessionIDs \ {BogusSessionID}, emailID \in Owners :
                     UploadChunkStart(p, emailID, sessionID, <<"0">>, "A")
             \/ \E sessionID \in KnownSessionIDs \ {BogusSessionID}, emailID \in Owners :
                     CompleteUploadStart(p, emailID, sessionID)
             \/ Continue(p)
    \/ heap # <<>> /\ Elapse
    \/ cleanupLoop

SpecJanitor == InitJanitor /\ [][NextJanitor]_vars

----------------------------------------------------------------------------
(* The locks. A handler takes sm.mu inside GetSession, CreateSession and
   DeleteSession and us.mu inside the session methods and finalizeUpload,
   each time for one step; AddChunk is taken here in its two writes, with
   us.mu held in between. The janitor is a task of its own that holds sm.mu
   from the start of a scan to its end, its AbortMultipartUpload calls
   included, and never takes us.mu. *)

\* the janitor's place among the tasks
JanitorTask == 0

\* the janitor between two scans
Asleep == [pc |-> "janitor_sleep", now |-> 0, todo |-> {}, sid |-> BogusSessionID]

\* the tasks that hold sm.mu
TableLockHolders ==
    {p \in DOMAIN h : h[p].pc \in {"janitor_scan", "janitor_abort_s3"}}

\* the tasks that hold the mutex of session s
MutexHolders(s) ==
    {p \in DOMAIN h \ {JanitorTask} : h[p].pc = "chunk_add_locked" /\ h[p].sess = s}

\* the tasks with an object-store call in flight
StoreCallers ==
    {p \in DOMAIN h : h[p].pc \in {"init_s3", "chunk_s3", "finalize_s3", "cancel_s3",
                                    "janitor_abort_s3"}}

\* sm.mu.Lock(); now := time.Now(); the range over the table begins
JanitorLock ==
    /\ h[JanitorTask].pc = "janitor_sleep"
    /\ TableLockHolders = {}
    /\ h' = [h EXCEPT ![JanitorTask] =
                [pc |-> "janitor_scan", now |-> now,
                 todo |-> {id \in DOMAIN sessions : sessions[id] # 0},
                 sid |-> BogusSessionID]]
    /\ out' = NoResp
    /\ UNCHANGED <<now, sessions, heap, s3, s3calls, nreq, svars>>

\* one round of the range: the session's fields are read without us.mu
JanitorVisit(id) ==
    /\ h[JanitorTask].pc = "janitor_scan"
    /\ id \in h[JanitorTask].todo
    /\ LET session == heap[sessions[id]]
           rest == h[JanitorTask].todo \ {id}
       IN
       IF ~Stale(session, h[JanitorTask].now) THEN
            /\ h' = [h EXCEPT ![JanitorTask].todo = rest]
            /\ UNCHANGED <<sessions, s3calls>>
       ELSE IF session.UploadID # 0 /\ session.State # "completed" THEN
            /\ h' = [h EXCEPT ![JanitorTask].pc = "janitor_abort_s3",
                              ![JanitorTask].sid = id]
            /\ s3calls' = Bump(<<"abort_issued", sessions[id], 0, <<>>>>)
            /\ UNCHANGED sessions
       ELSE
            /\ h' = [h EXCEPT ![JanitorTask].todo = rest]
            /\ sessions' = [sessions EXCEPT ![id] = 0]
            /\ UNCHANGED s3calls
    /\ out' = NoResp
    /\ UNCHANGED <<now, heap, s3, nreq, svars>>

\* AbortMultipartUpload returns, its result is dropped; delete(sm.sessions, id)
JanitorAbortReturn(ok) ==
    /\ h[JanitorTask].pc = "janitor_abort_s3"
    /\ LET id == h[JanitorTask].sid
           uploadID == heap[sessions[id]].UploadID
       IN
       /\ ok => UploadActive(uploadID)
       /\ s3' = IF ok THEN [s3 EXCEPT !.uploads[uploadID].status = "aborted",
                                      !.uploads[uploadID].parts = <<>>]
                ELSE s3
       /\ sessions' = [sessions EXCEPT ![id] = 0]
       /\ h' = [h EXCEPT ![JanitorTask].pc = "janitor_scan",
                         ![JanitorTask].todo = @ \ {id},
                         ![JanitorTask].sid = BogusSessionID]
    /\ out' = NoResp
    /\ UNCHANGED <<now, heap, s3calls, nreq, svars>>

\* the range is over: sm.mu.Unlock()
JanitorUnlock ==
    /\ h[JanitorTask].pc = "janitor_scan"
    /\ h[JanitorTask].todo = {}
    /\ h' = [h EXCEPT ![JanitorTask] = Asleep]
    /\ out' = NoResp
    /\ UNCHANGED <<now, sessions, heap, s3, s3calls, nreq, svars>>

\* AddChunk from us.mu.Lock() to the write of us.ReceivedChunks[index], or to
\* its return when the index is there already
AddChunkEnter(p) ==
    /\ h[p].pc = "chunk_add"
    /\ LET s == h[p].sess
           hash == Sha256Hex(h[p].data)
       IN
       IF h[p].chunkIndex \in DOMAIN heap[s].ReceivedChunks THEN
            /\ Goto(p, [h[p] EXCEPT !.pc = "chunk_progress",
                                    !.isDuplicate = AddChunkResult(heap[s], h[p].chunkIndex, hash)])
            /\ UNCHANGED heap
       ELSE
            /\ heap' = [heap EXCEPT ![s].ReceivedChunks =
                            @ @@ (h[p].chunkIndex :>
                                    [Index |-> h[p].chunkIndex, Size |-> DataLen(h[p].data),
                                     Hash |-> hash, PartNumber |-> h[p].partNumber,
                                     ETag |-> ETagOf(h[p].data)])]
            /\ Goto(p, [h[p] EXCEPT !.pc = "chunk_add_locked"])
    /\ UNCHANGED <<now, sessions, s3, s3calls, nreq>>

\* AddChunk from the append to us.CompletedParts to its return
AddChunkLeave(p) ==
    /\ h[p].pc = "chunk_add_locked"
    /\ heap' = [heap EXCEPT ![h[p].sess].CompletedParts =
                    Append(@, [PartNumber |-> h[p].partNumber, ETag |-> ETagOf(h[p].data)]),
                            ![h[p].sess].UpdatedAt = now]
    /\ Goto(p, [h[p] EXCEPT !.pc = "chunk_progress", !.isDuplicate = FALSE])
    /\ UNCHANGED <<now, sessions, s3, s3calls, nreq>>

\* the steps of a handler under way; the ones inside us.mu wait for it
ContinueLocked(p) ==
    \/ \E ok \in BOOLEAN : InitUploadReturn(p, ok)
    \/ \E ok \in BOOLEAN : UploadPartReturn(p, ok)
    \/ FinalizeIssue(p)
    \/ AddChunkLeave(p)
    \/ /\ MutexHolders(h[p].sess) = {}
       /\ \/ AddChunkEnter(p)
          \/ UploadChunkProgress(p)
          \/ UploadChunkIsComplete(p)
          \/ FinalizeCheck(p)
          \/ \E ok \in BOOLEAN : FinalizeReturn(p, ok)

InitLocks ==
    /\ now = 0
    /\ sessions = [id \in SessionIDs |-> 0]
    /\ heap = <<>>
    /\ s3 = [uploads |-> <<>>, objects |-> {}]
    /\ h = [p \in 0..LockHandlers |-> IF p = JanitorTask THEN Asleep ELSE Idle]
    /\ out = NoResp
    /\ s3calls = <<>>
    /\ nreq = LockRequests
    /\ NoStreaming

(* An upload of one chunk, the janitor and the clock: the requests that go
   through the table wait while sm.mu is held *)
NextLocks ==
    \/ /\ UNCHANGED svars
       /\ \E p \in DOMAIN h \ {JanitorTask} :
             \/ /\ heap = <<>>
                /\ TableLockHolders = {}
                /\ InitUploadStart(p, now, "a", "clip.mp4", 5, 1, 5)
             \/ \E sessionID \in KnownSessionIDs \ {BogusSessionID},
                   chunkIndexStr \in {<<"0">>, <<"1">>} :
                     /\ TableLockHolders = {}
                     /\ UploadChunkStart(p, "a", sessionID, chunkIndexStr, "A")
             \/ ContinueLocked(p)
    \/ heap # <<>> /\ Elapse
    \/ JanitorLock
    \/ \E id \in DOMAIN sessions : JanitorVisit(id)
    \/ \E ok \in BOOLEAN : JanitorAbortReturn(ok)
    \/ JanitorUnlock

SpecLocks == InitLocks /\ [][NextLocks]_vars

----------------------------------------------------------------------------
(* The binary-protocol server (gnet-backend/main.go). OnTraffic takes the
   commands of a connection one after another and runs each handler to its
   response, the object-store calls included; here one authenticated user
   sends commands on one connection. The store is the one above. *)

gnet_SUPPORTED_EXTENSIONS == {".mp4", ".pdf", ".jpg", ".jpeg", ".png", ".gif", ".webp",
                              ".mov", ".avi", ".mkv"}

GnetResp == [kind |-> "none", message |-> "", state |-> "", chunk_index |-> -1,
             received |-> -1, total |-> -1, s3_key |-> <<>>, file_size |-> -1]

errorResponse(message) == [GnetResp EXCEPT !.kind = "error", !.message = message]

\* CreateSession: the error it returns, sizes in MiB
gnet_CreateSessionError(fileName, totalChunks, chunkSize) ==
    IF Ext(fileName) \notin gnet_SUPPORTED_EXTENSIONS THEN "unsupported file type"
    ELSE IF totalChunks * chunkSize > MAX_FILE_SIZE THEN "file size exceeds maximum"
    ELSE IF chunkSize < MIN_CHUNK_SIZE THEN "chunk size too small"
    ELSE IF chunkSize > MAX_CHUNK_SIZE THEN "chunk size too large"
    ELSE "ok"

\* CreateSession: the session it registers; PausedAt is -1 for nil
gnet_NewSession(t, userID, fileName, totalChunks, chunkSize) ==
    [SessionID |-> <<userID, t>>,
     UserID |-> userID,
     FileName |-> fileName,
     S3Key |-> <<userID, t, fileName>>,
     TotalChunks |-> totalChunks,
     ChunkSize |-> chunkSize,
     TotalSize |-> totalChunks * chunkSize,
     State |-> "initialized",
     ReceivedChunks |-> <<>>,
     UploadID |-> 0,
     CompletedParts |-> <<>>,
     CreatedAt |-> t,
     UpdatedAt |-> t,
     PausedAt |-> -1]

gnet_AddChunk(us, index, size, hash, partNumber, etag) ==
    IF index \in DOMAIN us.ReceivedChunks THEN us
    ELSE [us EXCEPT
            !.ReceivedChunks = @ @@ (index :> [Index |-> index, Size |-> size,
                                               Hash |-> hash,
                                               PartNumber |-> partNumber,
                                               ETag |-> etag]),
            !.CompletedParts = Append(@, [PartNumber |-> partNumber, ETag |-> etag]),
            !.State = "uploading",
            !.UpdatedAt = now]

Pause(us) == [us EXCEPT !.State = "paused", !.PausedAt = now, !.UpdatedAt = now]

Resume(us) == [us EXCEPT !.State = "uploading", !.PausedAt = -1, !.UpdatedAt = now]

Cancel(us) == [us EXCEPT !.State = "cancelled", !.UpdatedAt = now]

GetMissingChunks(us) ==
    {i \in 0..(us.TotalChunks - 1) : i \notin DOMAIN us.ReceivedChunks}

\* the command is taken off the connection
gnet_Command ==
    /\ nreq > 0
    /\ nreq' = nreq - 1
    /\ UNCHANGED <<now, h, svars>>

\* CMD_INIT_UPLOAD; ok tells whether the store answers CreateMultipartUpload
gnet_handleInitUpload(userID, fileName, totalChunks, chunkSize, ok) ==
    /\ gnet_Command
    /\ <<userID, now>> \in SessionIDs
    /\ sessions[<<userID, now>>] = 0
    /\ LET err == gnet_CreateSessionError(fileName, totalChunks, chunkSize)
           session == gnet_NewSession(now, userID, fileName, totalChunks, chunkSize)
       IN
       IF err # "ok" THEN
            /\ out' = errorResponse(err)
            /\ UNCHANGED <<sessions, heap, s3>>
       ELSE
            /\ sessions' = [sessions EXCEPT ![session.SessionID] = Len(heap) + 1]
            /\ IF ok THEN
                    /\ s3' = [s3 EXCEPT !.uploads = Append(@, [key |-> session.S3Key,
                                                               status |-> "active",
                                                               parts |-> <<>>])]
                    /\ heap' = Append(heap, [session EXCEPT !.UploadID = Len(s3.uploads) + 1])
                    /\ out' = [GnetResp EXCEPT !.kind = "ready", !.s3_key = session.S3Key]
               ELSE
                    /\ heap' = Append(heap, session)
                    /\ out' = errorResponse("CreateMultipartUpload failed")
                    /\ UNCHANGED s3
    /\ UNCHANGED s3calls

\* finalizeUpload on the session us and the store as the chunk has left them;
\* ok tells whether the store answers CompleteMultipartUpload
gnet_finalizeUpload(s, us, store, calls, ok) ==
    LET issued == <<"complete_issued", s, 0, <<>>>>
        held == store.uploads[us.UploadID].parts
        acceptable == /\ store.uploads[us.UploadID].status = "active"
                      /\ \A i \in 1..Len(us.CompletedParts) :
                            /\ us.CompletedParts[i].PartNumber \in DOMAIN held
                            /\ us.CompletedParts[i].ETag
                                  = ETagOf(held[us.CompletedParts[i].PartNumber])
    IN
    /\ ok => acceptable
    /\ s3calls' = [d \in DOMAIN calls \cup {issued} |->
                      CountIn(calls, d) + (IF d = issued THEN 1 ELSE 0)]
    /\ IF ok THEN
            /\ s3' = [store EXCEPT !.uploads[us.UploadID].status = "completed",
                                   !.objects = @ \cup {us.S3Key}]
            /\ heap' = [heap EXCEPT ![s] = [us EXCEPT !.State = "completed",
                                                      !.UpdatedAt = now]]
            /\ out' = [GnetResp EXCEPT !.kind = "complete", !.s3_key = us.S3Key,
                                       !.file_size = us.TotalSize]
       ELSE
            /\ s3' = store
            /\ heap' = [heap EXCEPT ![s] = [us EXCEPT !.State = "failed"]]
            /\ out' = errorResponse("Failed to complete upload")

\* CMD_UPLOAD_CHUNK; partOk and completeOk tell whether the store answers
\* UploadPart and CompleteMultipartUpload
gnet_handleUploadChunk(userID, sessionID, chunkIndex, chunkData, partOk, completeOk) ==
    /\ gnet_Command
    /\ LET s == sessions[sessionID] IN
       IF s = 0 THEN
            /\ out' = errorResponse("Invalid session ID")
            /\ UNCHANGED <<heap, s3, s3calls>>
       ELSE IF heap[s].UserID # userID THEN
            /\ out' = errorResponse("Session does not belong to user")
            /\ UNCHANGED <<heap, s3, s3calls>>
       ELSE IF heap[s].State = "paused" THEN
            /\ out' = errorResponse("Upload is paused. Resume first.")
            /\ UNCHANGED <<heap, s3, s3calls>>
       ELSE IF heap[s].State = "cancelled" THEN
            /\ out' = errorResponse("Upload was cancelled")
            /\ UNCHANGED <<heap, s3, s3calls>>
       ELSE
            LET partNumber == PartNumberOf(chunkIndex)
                hash == Sha256Hex(chunkData)
                calls == Bump(<<"upload_part_issued", s, partNumber, hash>>)
                store == StorePart(heap[s].UploadID, partNumber, chunkData)
                us == gnet_AddChunk(heap[s], chunkIndex, DataLen(chunkData), hash,
                                    partNumber, ETagOf(chunkData))
            IN
            /\ partOk => UploadActive(heap[s].UploadID)
            /\ IF ~partOk THEN
                    /\ out' = errorResponse("S3 upload failed")
                    /\ s3calls' = calls
                    /\ UNCHANGED <<heap, s3>>
               ELSE IF IsComplete(us) THEN
                    gnet_finalizeUpload(s, us, store, calls, completeOk)
               ELSE
                    /\ heap' = [heap EXCEPT ![s] = us]
                    /\ s3' = store
                    /\ s3calls' = calls
                    /\ out' = [GnetResp EXCEPT
                                  !.kind = IF AddChunkResult(heap[s], chunkIndex, hash)
                                           THEN "duplicate" ELSE "chunk_ack",
                                  !.chunk_index = chunkIndex,
                                  !.received = GetProgress(us)[1],
                                  !.total = GetProgress(us)[2]]
    /\ UNCHANGED sessions

\* CMD_PAUSE_UPLOAD
gnet_handlePauseUpload(userID, sessionID) ==
    /\ gnet_Command
    /\ LET s == sessions[sessionID] IN
       IF s = 0 THEN
            /\ out' = errorResponse("Invalid session ID")
            /\ UNCHANGED heap
       ELSE IF heap[s].UserID # userID THEN
            /\ out' = errorResponse("Session does not belong to user")
            /\ UNCHANGED heap
       ELSE
            /\ heap' = [heap EXCEPT ![s] = Pause(@)]
            /\ out' = [GnetResp EXCEPT !.kind = "paused",
                                       !.received = GetProgress(heap[s])[1],
                                       !.total = GetProgress(heap[s])[2]]
    /\ UNCHANGED <<sessions, s3, s3calls>>

\* CMD_RESUME_UPLOAD
gnet_handleResumeUpload(userID, sessionID) ==
    /\ gnet_Command
    /\ LET s == sessions[sessionID] IN
       IF s = 0 THEN
            /\ out' = errorResponse("Invalid session ID")
            /\ UNCHANGED heap
       ELSE IF heap[s].UserID # userID THEN
            /\ out' = errorResponse("Session does not belong to user")
            /\ UNCHANGED heap
       ELSE IF heap[s].State # "paused" THEN
            /\ out' = errorResponse("Upload is not paused")
            /\ UNCHANGED heap
       ELSE
            /\ heap' = [heap EXCEPT ![s] = Resume(@)]
            /\ out' = [GnetResp EXCEPT !.kind = "resumed",
                                       !.received = GetProgress(heap[s])[1],
                                       !.total = GetProgress(heap[s])[2],
                                       !.chunk_index =
                                            Cardinality(GetMissingChunks(heap[s]))]
    /\ UNCHANGED <<sessions, s3, s3calls>>

\* CMD_CANCEL_UPLOAD; ok tells whether the store answers AbortMultipartUpload
gnet_handleCancelUpload(userID, sessionID, ok) ==
    /\ gnet_Command
    /\ LET s == sessions[sessionID] IN
       IF s = 0 THEN
            /\ out' = errorResponse("Invalid session ID")
            /\ UNCHANGED <<sessions, heap, s3, s3calls>>
       ELSE IF heap[s].UserID # userID THEN
            /\ out' = errorResponse("Session does not belong to user")
            /\ UNCHANGED <<sessions, heap, s3, s3calls>>
       ELSE
            /\ heap' = [heap EXCEPT ![s] = Cancel(@)]
            /\ IF heap[s].UploadID # 0 THEN
                    /\ ok => UploadActive(heap[s].UploadID)
                    /\ s3' = IF ok
                             THEN [s3 EXCEPT !.uploads[heap[s].UploadID].status = "aborted",
                                             !.uploads[heap[s].UploadID].parts = <<>>]
                             ELSE s3
                    /\ s3calls' = Bump(<<"abort_issued", s, 0, <<>>>>)
               ELSE
                    /\ ok
                    /\ UNCHANGED <<s3, s3calls>>
            /\ sessions' = [sessions EXCEPT ![sessionID] = 0]
            /\ out' = [GnetResp EXCEPT !.kind = "cancelled"]

\* CMD_GET_STATUS
gnet_handleGetStatus(userID, sessionID) ==
    /\ gnet_Command
    /\ LET s == sessions[sessionID] IN
       IF s = 0 THEN out' = errorResponse("Invalid session ID")
       ELSE IF heap[s].UserID # userID THEN
            out' = errorResponse("Session does not belong to user")
       ELSE out' = [GnetResp EXCEPT !.kind = "status", !.state = heap[s].State,
                                    !.received = GetProgress(heap[s])[1],
                                    !.total = GetProgress(heap[s])[2]]
    /\ UNCHANGED <<sessions, heap, s3, s3calls>>

InitGnet ==
    /\ now = 0
    /\ sessions = [id \in SessionIDs |-> 0]
    /\ heap = <<>>
    /\ s3 = [uploads |-> <<>>, objects |-> {}]
    /\ h = [p \in {1} |-> Idle]
    /\ out = GnetResp
    /\ s3calls = <<>>
    /\ nreq = GnetCommands
    /\ NoStreaming

(* One user and one upload of one chunk: the user starts it and then sends
   chunks, pauses, resumes, asks for the status and cancels, in any order *)
NextGnet ==
    \/ \E ok \in BOOLEAN :
            /\ heap = <<>>
            /\ gnet_handleInitUpload("a", "clip.mp4", 1, 5, ok)
    \/ \E sessionID \in KnownSessionIDs \ {BogusSessionID} :
            \/ \E chunkIndex \in {0, 1}, partOk \in BOOLEAN, completeOk \in BOOLEAN :
                    gnet_handleUploadChunk("a", sessionID, chunkIndex, "A", partOk, completeOk)
            \/ gnet_handlePauseUpload("a", sessionID)
            \/ gnet_handleResumeUpload("a", sessionID)
            \/ \E ok \in BOOLEAN : gnet_handleCancelUpload("a", sessionID, ok)
            \/ gnet_handleGetStatus("a", sessionID)

SpecGnet == InitGnet /\ [][NextGnet]_vars

----------------------------------------------------------------------------
(* Vocabulary of the properties *)

Sessions == 1..Len(heap)
PartNumbers == 1..(MaxChunks + 1)
Hashes == {Sha256Hex(d) : d \in Datas}

UploadPartOk(calls, s, part, hash) == CountIn(calls, <<"upload_part_ok", s, part, hash>>)
UploadPartOkAll(calls, s) ==
    [k \in PartNumbers \X Hashes |-> UploadPartOk(calls, s, k[1], k[2])]
CompleteIssued(calls, s) == CountIn(calls, <<"complete_issued", s, 0, <<>>>>)
CompleteOk(calls, s) == CountIn(calls, <<"complete_ok", s, 0, <<>>>>)

\* the handlers whose CompleteMultipartUpload call for session s is in flight
CompleteInFlight(s) == {p \in DOMAIN h : h[p].pc = "finalize_s3" /\ h[p].sess = s}

\* the number of entries of completed_parts with part number n
PartEntries(us, n) ==
    Cardinality({i \in 1..Len(us.CompletedParts) : us.CompletedParts[i].PartNumber = n})

\* the chunk_index text is a number
Parsable(str) == str # <<>> /\ ParseDigits(str, 0) >= 0

\* handler p took a step
Stepped(p) == h'[p] # h[p]

\* handler p wrote its response in this step
Returned(p) == h[p].pc # "idle" /\ h'[p].pc = "idle"

----------------------------------------------------------------------------
(* C1, as claimed: for every session, part number and chunk hash, the store
   performs at most one upload_part carrying these bytes, however often the
   chunk is sent. *)
C1_OneUploadPartPerHash ==
    \A s \in Sessions, part \in PartNumbers, hash \in Hashes :
        UploadPartOk(s3calls, s, part, hash) <= 1

(* C2, as claimed: a completed session has received exactly total_chunks
   chunks and every part number 1..total_chunks occurs exactly once in
   completed_parts. *)
C2_CompletedHasEveryPartOnce ==
    \A s \in Sessions :
        heap[s].State = "completed" =>
            /\ Cardinality(DOMAIN heap[s].ReceivedChunks) = heap[s].TotalChunks
            /\ \A n \in 1..heap[s].TotalChunks : PartEntries(heap[s], n) = 1

(* C3, as claimed: complete_multipart is issued at most once per session. *)
C3_CompleteIssuedAtMostOnce ==
    \A s \in Sessions : CompleteIssued(s3calls, s) <= 1

(* C3, amended: a complete_multipart call is issued for a session only when
   none has succeeded and none is in flight, so every call but the first
   follows a failed one. *)
C3_CompleteIssuedOnlyAfterFailure ==
    [][\A s \in Sessions :
         CompleteIssued(s3calls', s) > CompleteIssued(s3calls, s) =>
            /\ CompleteOk(s3calls, s) = 0
            /\ CompleteInFlight(s) = {}]_vars

C3_Witness ==
    \E s \in Sessions :
        /\ CompleteIssued(s3calls, s) = 2
        /\ CompleteOk(s3calls, s) = 1
        /\ heap[s].State = "completed"

(* C4: at most one complete_multipart call per session is in flight, and a
   finalize that finds the state finalizing answers with the finalizing
   acknowledgement and changes neither the session nor the store nor the
   call counts. *)
C4_FinalizeSerialized ==
    /\ [](\A s \in Sessions : Cardinality(CompleteInFlight(s)) <= 1)
    /\ [][\A p \in DOMAIN h :
            (h[p].pc = "finalize" /\ heap[h[p].sess].State = "finalizing" /\ Stepped(p))
                => /\ out' = FinalizingAck
                   /\ h'[p].pc = "idle"
                   /\ heap' = heap /\ s3' = s3 /\ s3calls' = s3calls]_vars

C4_Witness ==
    /\ out = FinalizingAck
    /\ \E s \in Sessions : CompleteInFlight(s) # {}

(* C5, as claimed: an /upload/complete handler that finds its session
   completed answers with the completion echo of that session, issues no
   store call and leaves the session unchanged. *)
C5_CompleteReplayEchoes ==
    [][\A p \in DOMAIN h :
         (h[p].pc \in {"complete_iscomplete", "finalize"}
            /\ heap[h[p].sess].State = "completed" /\ Stepped(p))
         => /\ heap' = heap /\ s3' = s3 /\ s3calls' = s3calls
            /\ Returned(p) => out' = CompletedEcho(heap[h[p].sess])]_vars

(* C6, as claimed: an upload_chunk request for an index that is in received
   under another hash is answered with an error, issues no upload_part and
   leaves the session unchanged. *)
C6_HashMismatchRejected ==
    [][\A p \in DOMAIN h, sessionID \in SessionIDs, r \in ChunkRequests :
         LET s == sessions[sessionID]
             k == ParseUint(r.chunkIndexStr)
         IN (/\ s # 0
             /\ r.chunkData # ""
             /\ k \in DOMAIN heap[s].ReceivedChunks
             /\ heap[s].ReceivedChunks[k].Hash # Sha256Hex(r.chunkData)
             /\ UploadChunkStart(p, r.emailID, sessionID, r.chunkIndexStr, r.chunkData))
            => /\ out'.status >= 400
               /\ h' = h]_vars

(* C7, as claimed: of the upload_chunk calls for one index of a session that
   run at the same time at most one has its part stored, and completed_parts
   holds no part number twice. *)
C7_ConcurrentSameIndexOnePart ==
    /\ \A p, q \in DOMAIN h :
         (/\ p # q
          /\ h[p].pc = "chunk_add" /\ h[q].pc = "chunk_add"
          /\ h[p].sess = h[q].sess)
         => h[p].chunkIndex # h[q].chunkIndex
    /\ \A s \in Sessions, n \in PartNumbers : PartEntries(heap[s], n) <= 1

(* C8, as claimed: an upload_chunk call that AddChunk found to be a duplicate
   leaves the session unchanged and is answered with the duplicate
   acknowledgement carrying the current received and total. *)
C8_DuplicateAcknowledged ==
    [][\A p \in DOMAIN h :
         (h[p].isDuplicate /\ Stepped(p))
         => /\ heap' = heap
            /\ Returned(p) =>
                 /\ out'.kind = "chunk" /\ out'.duplicate
                 /\ out'.received = Cardinality(DOMAIN heap[h[p].sess].ReceivedChunks)
                 /\ out'.total = heap[h[p].sess].TotalChunks]_vars

(* C9, as claimed: an upload_chunk request whose chunk_index does not parse
   or is not below total_chunks is answered with a 400 error and goes no
   further: no upload_part, no change of the session. *)
C9_BadChunkIndexRejected ==
    [][\A p \in DOMAIN h, sessionID \in SessionIDs, r \in ChunkRequests :
         LET s == sessions[sessionID] IN
            (/\ s # 0
             /\ r.emailID = heap[s].EmailID
             /\ r.chunkData # ""
             /\ \/ ~Parsable(r.chunkIndexStr)
                \/ ParseUint(r.chunkIndexStr) >= heap[s].TotalChunks
             /\ UploadChunkStart(p, r.emailID, sessionID, r.chunkIndexStr, r.chunkData))
            => /\ out'.status = 400
               /\ h' = h]_vars

(* C10, as claimed: while a session is finalizing or completed no
   upload_chunk request for it gets as far as upload_part, and nothing is
   added to received or completed_parts. *)
C10_NoChunkOnceFinalizing ==
    [][/\ \A p \in DOMAIN h :
            (h[p].pc = "idle" /\ h'[p].pc = "chunk_s3")
                => heap[h'[p].sess].State \in {"initialized", "uploading"}
       /\ \A s \in Sessions :
            heap[s].State \in {"finalizing", "completed"}
                => /\ heap'[s].ReceivedChunks = heap[s].ReceivedChunks
                   /\ heap'[s].CompletedParts = heap[s].CompletedParts]_vars

----------------------------------------------------------------------------
\* the abort_multipart calls issued for session s
AbortIssued(calls, s) == CountIn(calls, <<"abort_issued", s, 0, <<>>>>)

\* the request was answered 403 and nothing else happened
Forbidden ==
    /\ out'.status = 403
    /\ UNCHANGED <<h, heap, sessions, s3, s3calls>>

(* C11: an upload_chunk, /upload/complete or /upload/cancel request for a
   live session that carries an email_id other than the session's owner is
   answered 403, issues no store call and leaves the handlers, the session
   and the session table unchanged (an upload_chunk request without email_id
   is a request with a missing field). *)
C11_OwnershipEnforced ==
    [][\A p \in DOMAIN h, sessionID \in KnownSessionIDs, emailID \in Emails \cup {""} :
         LET s == sessions[sessionID] IN
            (s # 0 /\ emailID # heap[s].EmailID)
            => /\ \A chunkIndexStr \in LifeChunkIndexStrs, chunkData \in LifeChunkDatas :
                    (/\ emailID # ""
                     /\ UploadChunkStart(p, emailID, sessionID, chunkIndexStr, chunkData))
                    => Forbidden
               /\ CompleteUploadStart(p, emailID, sessionID) => Forbidden
               /\ CancelUploadStart(p, emailID, sessionID) => Forbidden]_vars

C11_Witness ==
    /\ out = respondError(403, "Unauthorized: email_id mismatch")
    /\ \E s \in Sessions :
          /\ sessions[heap[s].SessionID] = s
          /\ heap[s].ReceivedChunks # <<>>

(* C12: an /upload/cancel request of the owner for a live session that holds
   chunks issues exactly one abort_multipart, for the session's upload id;
   when the handler returns, the session is out of the table and the answer
   is the cancellation acknowledgement; from then on an upload_chunk or
   /upload/complete request for an id that is not in the table is answered
   400 Invalid session ID and goes no further. *)
C12_CancelAbortsOnceAndRemoves ==
    [][/\ \A p \in DOMAIN h, sessionID \in KnownSessionIDs :
            LET s == sessions[sessionID] IN
               (/\ s # 0
                /\ heap[s].ReceivedChunks # <<>>
                /\ CancelUploadStart(p, heap[s].EmailID, sessionID))
               => /\ AbortIssued(s3calls', s) = AbortIssued(s3calls, s) + 1
                  /\ h'[p].pc = "cancel_s3"
                  /\ h'[p].uploadID = heap[s].UploadID
                  /\ heap[s].UploadID # 0
       /\ \A p \in DOMAIN h :
            (h[p].pc = "cancel_s3" /\ Stepped(p))
            => /\ s3calls' = s3calls
               /\ sessions'[h[p].sid] = 0
               /\ h'[p].pc = "idle"
               /\ out' = CancelledAck
       /\ \A p \in DOMAIN h, sessionID \in KnownSessionIDs, emailID \in Emails :
            sessions[sessionID] = 0
            => /\ \A chunkIndexStr \in LifeChunkIndexStrs, chunkData \in LifeChunkDatas :
                    UploadChunkStart(p, emailID, sessionID, chunkIndexStr, chunkData)
                    => (out' = respondError(400, "Invalid session ID") /\ h' = h)
               /\ CompleteUploadStart(p, emailID, sessionID)
                    => (out' = respondError(400, "Invalid session ID") /\ h' = h)]_vars

C12_Witness ==
    /\ out = respondError(400, "Invalid session ID")
    /\ \E s \in Sessions :
          /\ sessions[heap[s].SessionID] = 0
          /\ heap[s].ReceivedChunks # <<>>
          /\ AbortIssued(s3calls, s) = 1

(* C13: an /upload/cancel request for an id that is not in the table, with
   any email_id, is answered 200 session_not_found_or_already_deleted, issues
   no abort_multipart and changes nothing. *)
C13_CancelIdempotent ==
    [][\A p \in DOMAIN h, sessionID \in KnownSessionIDs, emailID \in Emails \cup {""} :
         (sessions[sessionID] = 0 /\ CancelUploadStart(p, emailID, sessionID))
         => /\ out'.status = 200
            /\ out'.kind = "session_not_found_or_already_deleted"
            /\ UNCHANGED <<h, heap, sessions, s3, s3calls, now>>]_vars

C13_Witness ==
    /\ out.kind = "session_not_found_or_already_deleted"
    /\ \E s \in Sessions :
          /\ sessions[heap[s].SessionID] = 0
          /\ AbortIssued(s3calls, s) = 1

(* C14: when complete_multipart fails, the handler answers 500, the session
   is initialized again with received and completed_parts as they were, and
   a finalize that finds the session initialized claims the finalization
   anew and issues complete_multipart. *)
C14_CompleteFailureReverts ==
    [][\A p \in DOMAIN h :
         LET s == h[p].sess IN
            /\ (/\ h[p].pc = "finalize_s3" /\ Stepped(p)
                /\ CompleteOk(s3calls', s) = CompleteOk(s3calls, s))
               => /\ out'.status = 500
                  /\ heap'[s].State = "initialized"
                  /\ heap'[s].ReceivedChunks = heap[s].ReceivedChunks
                  /\ heap'[s].CompletedParts = heap[s].CompletedParts
            /\ (h[p].pc = "finalize" /\ heap[s].State = "initialized" /\ Stepped(p))
               => (heap'[s].State = "finalizing" /\ h'[p].pc = "finalize_issue")
            /\ (h[p].pc = "finalize_issue" /\ Stepped(p))
               => CompleteIssued(s3calls', s) = CompleteIssued(s3calls, s) + 1]_vars

\* a session completed by the retry that followed a failed completion
C14_Witness ==
    /\ out.kind = "completed"
    /\ \E s \in Sessions :
          /\ heap[s].State = "completed"
          /\ CompleteIssued(s3calls, s) >= 2
          /\ CompleteOk(s3calls, s) = 1
          /\ CompleteInFlight(s) = {}

\* every chunk 0..total_chunks-1 of the first session has been accepted
AllChunksAccepted ==
    /\ heap # <<>>
    /\ \A k \in 0..(heap[1].TotalChunks - 1) : k \in DOMAIN heap[1].ReceivedChunks

(* C15, as claimed: once every chunk 0..total_chunks-1 of a session has been
   accepted, and with a store that does not fail complete_multipart, the
   session becomes completed without any /upload/complete request. *)
C15_AutoFinalize ==
    AllChunksAccepted ~> (heap # <<>> /\ heap[1].State = "completed")

----------------------------------------------------------------------------
\* some mint call returned the token with a window that has not ended
InWindow(token) ==
    \E i \in 1..Len(minted) : minted[i].token = token /\ now <= minted[i].expires

(* C16: the answer of /stream to a request that presents a token is 403
   exactly when no mint call returned that token with expires_at = mint time
   + 5 minutes not yet passed; the cache changes only by a mint or by the
   removal of entries whose expires_at has passed, so that a validation
   consumes nothing and the janitor removes nothing early. *)
C16_TokenValidInWindow ==
    /\ [](\A token \in StreamTokens \ {<<>>}, rangeHeader \in {<<>>, FormatOpenRange(0)},
             o \in StoreOutcomes :
            StreamResponse(token, rangeHeader, o[1], o[2]).status = 403
                <=> ~InWindow(token))
    /\ [][/\ tokens' # tokens
            => \/ Len(minted') > Len(minted)
               \/ \A token \in DOMAIN tokens : \/ token \notin DOMAIN tokens'
                                               \/ tokens'[token] = tokens[token]
          /\ \A token \in DOMAIN tokens :
               token \notin DOMAIN tokens' => now > tokens[token].ExpiresAt
          /\ Len(minted') > Len(minted)
               => minted'[Len(minted')].expires = now' + TOKEN_LIFETIME]_vars

\* every token handed out is past its window, one of them is still in the
\* cache, and the request just answered was refused
C16_Witness ==
    /\ out = streamError(403, "Invalid or expired streaming token")
    /\ minted # <<>>
    /\ \A i \in 1..Len(minted) : now > minted[i].expires
    /\ \E token \in DOMAIN tokens : now > tokens[token].ExpiresAt

(* C17, as claimed: no two mint calls return the same token. *)
C17_MintedTokensDistinct ==
    \A i, j \in 1..Len(minted) : i # j => minted[i].token # minted[j].token

\* the key begins with the owner followed by "/"
OwnedKey(emailID, s3Key) ==
    /\ Len(s3Key) > Len(emailID)
    /\ \A k \in 1..Len(emailID) : s3Key[k] = emailID[k]
    /\ s3Key[Len(emailID) + 1] = "/"

(* C18: a /files/streaming-token request of a caller for a key that does not
   begin with the caller's email_id and "/" is answered 403 and creates no
   token, and every entry of the token cache holds a key that begins with its
   owner's email_id and "/". *)
C18_TokenOnlyForOwnKey ==
    /\ [](\A token \in DOMAIN tokens : OwnedKey(tokens[token].EmailID, tokens[token].S3Key))
    /\ [][\A emailID \in StreamEmails \ {<<>>}, s3Key \in StreamKeys, t2 \in {now, now + 1} :
            (~OwnedKey(emailID, s3Key) /\ handleRequestStreamingToken(emailID, s3Key, t2))
            => /\ out'.status = 403
               /\ tokens' = tokens /\ minted' = minted]_vars

C18_Witness ==
    /\ out = streamError(403, "Unauthorized")
    /\ tokens # <<>>

(* C19, as claimed: for a valid token, a stored object of n bytes and a
   header Range: bytes=a-b with 0 <= a <= b < n, /stream answers 206 with the
   bytes a..b, Content-Range a-b/n and Content-Length b-a+1; with the end
   absent the range ends at n-1. *)
C19_RangeServedAsAsked ==
    [][\A token \in DOMAIN tokens :
         (~Expired(tokens[token], now) /\ tokens[token].S3Key \in DOMAIN files)
         => LET bytes == files[tokens[token].S3Key]
                n == Len(bytes)
            IN /\ \A a \in 0..(n - 1), b \in 0..(n - 1) :
                    (a <= b /\ handleStreamFile(token, FormatRange(a, b), TRUE, TRUE))
                    => /\ out'.status = 206
                       /\ out'.start = a /\ out'.end = b /\ out'.size = n
                       /\ out'.length = b - a + 1
                       /\ out'.body = SubSeq(bytes, a + 1, b + 1)
               /\ \A a \in 0..(n - 1) :
                    handleStreamFile(token, FormatOpenRange(a), TRUE, TRUE)
                    => /\ out'.status = 206
                       /\ out'.start = a /\ out'.end = n - 1
                       /\ out'.body = SubSeq(bytes, a + 1, n)]_vars

(* C20, as claimed: when the client has fetched the whole interval [0, n) of
   the object in contiguous ranges, what it has put together is the stored
   object. *)
C20_RangesReassemble ==
    dl.next = Len(files[TheKey]) => dl.body = files[TheKey]

\* the keys of a /files answer
ListedKeys(resp) == {resp.files[i].key : i \in 1..Len(resp.files)}

(* C21, as claimed: a /files request of an owner that the store answers
   returns exactly the stored keys that begin with the owner's email_id and
   "/": none of them is missing, however many are stored, and no other key
   is returned. *)
C21_ListReturnsOwnedKeys ==
    [][\A emailID \in ListEmails \ {<<>>} :
         handleListFiles(emailID, TRUE)
         => /\ out'.status = 200
            /\ ListedKeys(out') = {k \in DOMAIN files : OwnedKey(emailID, k)}]_vars

\* the email_id or the filename is missing, the extension is not in the
\* allowlist or the file is larger than 10 GiB
Malformed(r) ==
    \/ r.emailID = ""
    \/ r.fileName = ""
    \/ Ext(r.fileName) \notin SUPPORTED_EXTENSIONS
    \/ r.fileSize > MAX_FILE_SIZE

(* C22: an /upload/init request without email_id, without filename, with a
   filename whose extension is not in the allowlist or with file_size above
   10 GiB is answered 400, registers no session and issues no
   init_multipart call: no session object, table entry, store call or
   handler waiting for the store comes of it, and every session that
   exists has an owner, a filename with an allowed extension and a size
   within the limit. *)
C22_MalformedInitRejected ==
    /\ [](\A s \in Sessions :
            ~Malformed([emailID |-> heap[s].EmailID, fileName |-> heap[s].FileName,
                        fileSize |-> heap[s].TotalSize]))
    /\ [][\A p \in DOMAIN h, t \in ClockReadings, r \in CreateRequestSet :
            (Malformed(r) /\ InitUploadStart(p, t, r.emailID, r.fileName, r.fileSize,
                                             r.totalChunks, r.chunkSize))
            => /\ out'.status = 400
               /\ UNCHANGED <<sessions, heap, s3, s3calls, h>>]_vars

C22_Witness ==
    /\ out = respondError(400, "file size exceeds maximum")
    /\ heap # <<>>
    /\ \E p \in DOMAIN h : h[p].pc = "init_s3"

\* the sessions the table holds
LiveSessions == {sessions[id] : id \in {i \in DOMAIN sessions : sessions[i] # 0}}

(* C23, as claimed: an /upload/init request with chunk_size outside
   5 MiB .. 100 MiB or with total_chunks = 0 creates no session, so every
   session in the table has total_chunks >= 1 and a chunk_size within the
   two limits. *)
C23_ChunkingWithinLimits ==
    \A s \in LiveSessions :
        /\ heap[s].TotalChunks >= 1
        /\ MIN_CHUNK_SIZE <= heap[s].ChunkSize
        /\ heap[s].ChunkSize <= MAX_CHUNK_SIZE

(* C25, as claimed: a session is registered in the table only after
   init_multipart has succeeded, so every session in the table has its
   multipart_upload_id set. *)
C25_RegisteredAfterInitMultipart ==
    \A s \in LiveSessions : heap[s].UploadID # 0

(* C26, as claimed: no step replaces the session that the table holds under
   an id by another session, whatever the interleaving of the /upload/init
   calls and whatever clock readings they make. *)
C26_SessionIdNeverReused ==
    [][\A id \in DOMAIN sessions :
         sessions[id] # 0 => sessions'[id] \in {0, sessions[id]}]_vars

(* C27, as claimed: every session in the table satisfies
   total_chunks * chunk_size >= total_size > (total_chunks - 1) * chunk_size. *)
C27_ChunksCoverFile ==
    \A s \in LiveSessions :
        /\ heap[s].TotalChunks * heap[s].ChunkSize >= heap[s].TotalSize
        /\ heap[s].TotalSize > (heap[s].TotalChunks - 1) * heap[s].ChunkSize

\* the janitor of the specification: the session timeout, or one hour for a
\* session that is completed or cancelled
ShouldExpire(us, t) ==
    \/ t - us.UpdatedAt > SESSION_TIMEOUT
    \/ us.State \in {"completed", "cancelled"} /\ t - us.UpdatedAt > 60

(* C24, as claimed: a scan of the janitor removes a session exactly when it
   has been idle for more than two hours, or for more than one hour in state
   completed or cancelled; it issues abort_multipart for a session exactly
   when it removes it and the session has an upload id and is not
   completed, and it removes the session whatever the abort returns. *)
C24_JanitorRemovesIdleSessions ==
    [][cleanupLoop =>
         \A id \in DOMAIN sessions :
            sessions[id] # 0 =>
               LET s == sessions[id] IN
               /\ sessions'[id] = 0 <=> ShouldExpire(heap[s], now)
               /\ AbortIssued(s3calls', s) > AbortIssued(s3calls, s)
                     <=> /\ ShouldExpire(heap[s], now)
                         /\ heap[s].UploadID # 0
                         /\ heap[s].State # "completed"]_vars

(* C28, as claimed: for every index k in received, the part number of the
   entry is k + 1 and lies in 1..total_chunks. *)
C28_PartNumberIsIndexPlusOne ==
    \A s \in Sessions : \A k \in DOMAIN heap[s].ReceivedChunks :
        /\ heap[s].ReceivedChunks[k].PartNumber = k + 1
        /\ heap[s].ReceivedChunks[k].PartNumber \in 1..heap[s].TotalChunks

(* C29, as claimed: a session that holds a chunk and has not been through a
   finalize attempt is in state uploading. *)
C29_UploadingAfterFirstChunk ==
    \A s \in Sessions :
        (/\ heap[s].ReceivedChunks # <<>>
         /\ CompleteIssued(s3calls, s) = 0
         /\ heap[s].State \notin {"finalizing", "completed"}
         /\ \A p \in DOMAIN h : h[p].sess = s => h[p].pc # "finalize_issue")
        => heap[s].State = "uploading"

\* a handler enters finalizeUpload for session s in this step
FinalizeAttempt(s) ==
    \E p \in DOMAIN h : h[p].pc = "finalize" /\ h[p].sess = s /\ Stepped(p)

(* C30, as claimed: every step that adds a chunk to a session, changes its
   state or is a finalize attempt on it sets updated_at to the time of the
   step. *)
C30_UpdatedAtAdvanced ==
    [][\A s \in Sessions :
         (\/ heap'[s].ReceivedChunks # heap[s].ReceivedChunks
          \/ heap'[s].State # heap[s].State
          \/ FinalizeAttempt(s))
         => heap'[s].UpdatedAt = now]_vars

(* C33: an entry of a session's received chunks, once inserted, keeps its
   size, hash, part number and ETag through every later step (a duplicate,
   a retry with other bytes, a concurrent upload of the same index, a
   finalization), and its index stays among the received ones. *)
C33_ChunkInfoImmutable ==
    [][\A s \in Sessions : \A k \in DOMAIN heap[s].ReceivedChunks :
            /\ k \in DOMAIN heap'[s].ReceivedChunks
            /\ heap'[s].ReceivedChunks[k] = heap[s].ReceivedChunks[k]]_vars

\* a retry of a received index with other bytes has gone through AddChunk
C33_Witness ==
    \E p \in DOMAIN h :
        /\ h[p].pc = "chunk_progress"
        /\ h[p].chunkIndex \in DOMAIN heap[h[p].sess].ReceivedChunks
        /\ heap[h[p].sess].ReceivedChunks[h[p].chunkIndex].Hash # Sha256Hex(h[p].data)

(* C34, as claimed: when complete_multipart is issued, every part listed in
   the call carries the ETag of the part the store holds under that number. *)
C34_PartETagsMatchStore ==
    [][\A p \in DOMAIN h :
            (h[p].pc = "finalize_issue" /\ Stepped(p)) =>
                \A i \in 1..Len(h'[p].parts) :
                    LET held == s3.uploads[h'[p].uploadID].parts IN
                    /\ h'[p].parts[i].PartNumber \in DOMAIN held
                    /\ h'[p].parts[i].ETag = ETagOf(held[h'[p].parts[i].PartNumber])]_vars

(* C36: a session whose state is completed keeps that state through every
   step (chunk uploads, finalizations, failed complete_multipart results). *)
C36_CompletedAbsorbing ==
    [][\A s \in Sessions :
            heap[s].State = "completed" => heap'[s].State = "completed"]_vars

\* after a failed and a successful finalization, one more is about to be decided
C36_Witness ==
    \E p \in DOMAIN h :
        /\ h[p].pc = "finalize"
        /\ heap[h[p].sess].State = "completed"
        /\ CompleteIssued(s3calls, h[p].sess) = 2

(* C37: the completed parts of a session are, one for one, the entries of
   its received chunks: as many, the same part numbers, each with the ETag
   of its chunk. *)
C37_PartsMirrorReceived ==
    \A s \in Sessions :
        LET us == heap[s] IN
        /\ Len(us.CompletedParts) = Cardinality(DOMAIN us.ReceivedChunks)
        /\ {us.CompletedParts[i].PartNumber : i \in 1..Len(us.CompletedParts)}
              = {us.ReceivedChunks[k].PartNumber : k \in DOMAIN us.ReceivedChunks}
        /\ \A k \in DOMAIN us.ReceivedChunks :
              \E i \in 1..Len(us.CompletedParts) :
                  /\ us.CompletedParts[i].PartNumber = us.ReceivedChunks[k].PartNumber
                  /\ us.CompletedParts[i].ETag = us.ReceivedChunks[k].ETag

\* both chunks are received and one of them was sent again
C37_Witness ==
    \E s \in Sessions :
        /\ Cardinality(DOMAIN heap[s].ReceivedChunks) = 2
        /\ \E p \in DOMAIN h : h[p].pc = "chunk_progress" /\ h[p].isDuplicate

\* the sessions that cancel_upload has removed from the table
Cancelled ==
    {s \in Sessions : \A id \in SessionIDs : sessions[id] # s}

(* C35, as claimed: once cancel_upload has returned for a session, no
   handler issues upload_part or complete_multipart for its upload and the
   session does not become completed. *)
C35_CancelTerminal ==
    [][\A s \in Cancelled :
            /\ CompleteIssued(s3calls', s) = CompleteIssued(s3calls, s)
            /\ \A p \in DOMAIN h :
                  (h'[p].pc = "chunk_s3" /\ h'[p].sess = s) => h[p].pc = "chunk_s3"
            /\ heap'[s].State # "completed"]_vars

(* C39, as claimed: a 206 answer of /stream for an object of at least one
   byte names a range inside the object, 0 <= start <= end <= size - 1, and a
   length between 1 and the size. *)
C39_PartialWithinObject ==
    (out.status = 206 /\ out.size >= 1) =>
        /\ 0 <= out.start /\ out.start <= out.end /\ out.end <= out.size - 1
        /\ 1 <= out.length /\ out.length <= out.size

\* the owners whose init_upload derived the key
DerivedFor(s3Key) == {emailID \in IsolationOwners : s3Key = ObjectKey(emailID, 1)}

(* C38, as claimed: a streaming token is held only for a key derived for the
   owner it was minted for, and /files answers an owner only with keys
   derived for that owner. *)
C38_CrossOwnerIsolation ==
    [][/\ \A token \in DOMAIN tokens' :
              DerivedFor(tokens'[token].S3Key) = {tokens'[token].EmailID}
       /\ \A emailID \in IsolationOwners :
              handleListFiles(emailID, TRUE) =>
                  \A k \in ListedKeys(out') : DerivedFor(k) = {emailID}]_vars

(* C31, as claimed: a task with an object-store call in flight holds neither
   the session-table lock nor a session mutex. *)
C31_NoLockAcrossStoreCall ==
    \A p \in StoreCallers :
        /\ p \notin TableLockHolders
        /\ \A s \in Sessions : p \notin MutexHolders(s)

(* C32, as claimed: a session's received chunks, completed parts, state and
   updated_at are read and written under the session mutex only, so while a
   task is inside AddChunk no other task reads them: no finalization takes
   the parts list for complete_multipart and the janitor does not look at
   the session. *)
C32_SessionFieldsUnderMutex ==
    [][\A s \in Sessions :
          MutexHolders(s) # {} =>
             /\ \A q \in DOMAIN h \ {JanitorTask} :
                   (h[q].pc = "finalize_issue" /\ h[q].sess = s) => ~Stepped(q)
             /\ \A id \in DOMAIN sessions :
                   sessions[id] = s => ~JanitorVisit(id)]_vars

\* the UploadPart calls of the binary-protocol server for session s
UploadPartIssued(calls, s) ==
    LET ds == {d \in DOMAIN calls : d[1] = "upload_part_issued" /\ d[2] = s}
        Sum[S \in SUBSET ds] ==
            IF S = {} THEN 0
            ELSE LET d == CHOOSE x \in S : TRUE IN calls[d] + Sum[S \ {d}]
    IN Sum[ds]

(* C40, as claimed: in the binary-protocol server a session in state
   completed or cancelled keeps that state through every later command of
   its owner, and no command issues a further UploadPart or
   CompleteMultipartUpload for it. *)
C40_GnetTerminalStatesAbsorbing ==
    [][\A s \in Sessions :
          heap[s].State \in {"completed", "cancelled"} =>
             /\ heap'[s].State = heap[s].State
             /\ UploadPartIssued(s3calls', s) = UploadPartIssued(s3calls, s)
             /\ CompleteIssued(s3calls', s) = CompleteIssued(s3calls, s)]_vars

====
